---- MODULE Spec2Model ----
(***************************************************************************)
(* A model of the lifx-core UDP manager: the wire codec that decides what  *)
(* a received datagram is (protocol.rs, msg.rs), the per-attribute cache   *)
(* (refreshable_data.rs), the bulb record (bulb.rs) and the manager's      *)
(* receive task, refresh and registry lock (manager.rs).                   *)
(*                                                                         *)
(* Datagrams are sequences of bytes; unpacking and payload decoding are    *)
(* computed on the bytes as the code computes them.  Integers wider than   *)
(* 31 bits are modelled by values below 2^31: every input is chosen so     *)
(* that no field exceeds that range.                                       *)
(***************************************************************************)
EXTENDS Integers, Sequences, FiniteSets, TLC

(***************************************************************************)
(* Option and Result values.                                               *)
(***************************************************************************)
None == <<>>
Some(x) == <<x>>
IsSome(o) == Len(o) = 1
Unwrap(o) == o[1]

Ok(v) == [tag |-> "Ok", val |-> <<v>>, err |-> "none"]
Err(e) == [tag |-> "Err", val |-> <<>>, err |-> e]
Panic == [tag |-> "Panic", val |-> <<>>, err |-> "panic"]

(***************************************************************************)
(* read_write.rs: little-endian readers at a byte offset of a buffer.      *)
(***************************************************************************)
U8At(v, pos) == v[pos + 1]
U16At(v, pos) == v[pos + 1] + 256 * v[pos + 2]
U32At(v, pos) == U16At(v, pos) + 65536 * U16At(v, pos + 2)
U64At(v, pos) == U32At(v, pos) + U32At(v, pos + 4) * 65536 * 65536
I16At(v, pos) == IF U16At(v, pos) >= 32768 THEN U16At(v, pos) - 65536 ELSE U16At(v, pos)

(***************************************************************************)
(* read_write.rs: little-endian writers.                                   *)
(***************************************************************************)
LE8(x) == <<x>>
LE16(x) == <<x % 256, x \div 256>>
LE32(x) == LE16(x % 65536) \o LE16(x \div 65536)
LE64(x) == LE32(x) \o <<0, 0, 0, 0>>
LEI16(x) == LE16(IF x < 0 THEN x + 65536 ELSE x)

Zeros(n) == [i \in 1..n |-> 0]

(***************************************************************************)
(* protocol.rs: the three headers.                                         *)
(***************************************************************************)
FramePackedSize == 8
FrameAddressPackedSize == 16
ProtocolHeaderPackedSize == 12
HeaderSize == FramePackedSize + FrameAddressPackedSize + ProtocolHeaderPackedSize

LIFX_PROTOCOL == 1024

\* Frame::validate: TRUE when no assertion fails.
FrameValidate(f) == f.origin < 4 /\ f.addressable = TRUE /\ f.protocol = LIFX_PROTOCOL

\* FrameAddress::validate and ProtocolHeader::validate assert nothing.
FrameAddressValidate(a) == TRUE
ProtocolHeaderValidate(h) == TRUE

\* A pack that puts the tagged flag in bit 12 and addressable in bit 13.
FramePackFlagsSwapped(f) ==
    LET d == ((f.origin % 4) * 16384)
             + (IF f.tagged THEN 4096 ELSE 0)
             + (IF f.addressable THEN 8192 ELSE 0)
             + (f.protocol % 4096)
    IN LE16(f.size) \o LE16(d) \o LE32(f.source)

FramePack(f) ==
    LET d == ((f.origin % 4) * 16384)
             + (IF f.tagged THEN 8192 ELSE 0)
             + (IF f.addressable THEN 4096 ELSE 0)
             + (f.protocol % 4096)
    IN LE16(f.size) \o LE16(d) \o LE32(f.source)

\* Frame::unpack: size and the bit field are read first, the protocol is
\* checked before the source is read.
\* An unpack that masks the origin with 0x4000, one bit of the two.
FrameUnpackOriginOneBit(v) ==
    IF Len(v) < 4 THEN Err("Io")
    ELSE LET d == U16At(v, 2)
             protocol == d % 4096
         IN IF protocol # LIFX_PROTOCOL THEN Err("ProtocolError")
            ELSE IF Len(v) < 8 THEN Err("Io")
            ELSE Ok([size |-> U16At(v, 0),
                     origin |-> (d \div 16384) % 2,
                     tagged |-> (d \div 8192) % 2 = 1,
                     addressable |-> (d \div 4096) % 2 = 1,
                     protocol |-> protocol,
                     source |-> U32At(v, 4)])

\* An unpack that also rejects a frame whose addressable bit is clear.
FrameUnpackRejectsUnaddressable(v) ==
    IF Len(v) < 4 THEN Err("Io")
    ELSE LET d == U16At(v, 2)
             protocol == d % 4096
         IN IF protocol # LIFX_PROTOCOL \/ (d \div 4096) % 2 = 0 THEN Err("ProtocolError")
            ELSE IF Len(v) < 8 THEN Err("Io")
            ELSE Ok([size |-> U16At(v, 0),
                     origin |-> d \div 16384,
                     tagged |-> (d \div 8192) % 2 = 1,
                     addressable |-> (d \div 4096) % 2 = 1,
                     protocol |-> protocol,
                     source |-> U32At(v, 4)])

FrameUnpack(v) ==
    IF Len(v) < 4 THEN Err("Io")
    ELSE LET d == U16At(v, 2)
             protocol == d % 4096
         IN IF protocol # LIFX_PROTOCOL THEN Err("ProtocolError")
            ELSE IF Len(v) < 8 THEN Err("Io")
            ELSE Ok([size |-> U16At(v, 0),
                     origin |-> d \div 16384,
                     tagged |-> (d \div 8192) % 2 = 1,
                     addressable |-> (d \div 4096) % 2 = 1,
                     protocol |-> protocol,
                     source |-> U32At(v, 4)])

FrameAddressPack(a) ==
    LE64(a.target) \o a.reserved
    \o LE8(((a.reserved2 * 4) % 256)
           + (IF a.ack_required THEN 2 ELSE 0)
           + (IF a.res_required THEN 1 ELSE 0))
    \o LE8(a.sequence)

FrameAddressUnpack(v) ==
    IF Len(v) < FrameAddressPackedSize THEN Err("Io")
    ELSE LET b == U8At(v, 14)
         IN Ok([target |-> U64At(v, 0),
                reserved |-> SubSeq(v, 9, 14),
                reserved2 |-> b \div 4,
                ack_required |-> (b \div 2) % 2 = 1,
                res_required |-> b % 2 = 1,
                sequence |-> U8At(v, 15)])

ProtocolHeaderPack(h) == LE64(h.reserved) \o LE16(h.typ) \o LE16(h.reserved2)

ProtocolHeaderUnpack(v) ==
    IF Len(v) < ProtocolHeaderPackedSize THEN Err("Io")
    ELSE Ok([reserved |-> U64At(v, 0), typ |-> U16At(v, 8), reserved2 |-> U16At(v, 10)])

(***************************************************************************)
(* msg.rs: RawMessage.                                                     *)
(***************************************************************************)
Drop(v, n) == SubSeq(v, n + 1, Len(v))

RawMessagePackedSize(m) == HeaderSize + Len(m.payload)

RawMessagePack(m) ==
    FramePack(m.frame) \o FrameAddressPack(m.frame_addr)
    \o ProtocolHeaderPack(m.protocol_header) \o m.payload

\* RawMessage::unpack: an error of a header is returned, a failed assertion
\* of Frame::validate and a payload slice v[36..frame.size] outside the
\* buffer panic.
RawMessageUnpack(v) ==
    LET fr == FrameUnpack(v) IN
    IF fr.tag # "Ok" THEN fr
    ELSE LET frame == Unwrap(fr.val) IN
    IF ~FrameValidate(frame) THEN Panic
    ELSE LET ar == FrameAddressUnpack(Drop(v, FramePackedSize)) IN
    IF ar.tag # "Ok" THEN ar
    ELSE LET pr == ProtocolHeaderUnpack(Drop(v, FramePackedSize + FrameAddressPackedSize)) IN
    IF pr.tag # "Ok" THEN pr
    ELSE IF frame.size < HeaderSize \/ frame.size > Len(v) THEN Panic
    ELSE Ok([frame |-> frame,
             frame_addr |-> Unwrap(ar.val),
             protocol_header |-> Unwrap(pr.val),
             payload |-> SubSeq(v, HeaderSize + 1, frame.size)])

(***************************************************************************)
(* misc.rs, color.rs, string.rs: the payload field types.                  *)
(***************************************************************************)
\* The number of bytes read_val consumes for a field of the given type.
Width(t) ==
    CASE t = "u8" -> 1
      [] t = "u16" -> 2
      [] t = "i16" -> 2
      [] t = "u32" -> 4
      [] t = "f32" -> 4
      [] t = "u64" -> 8
      [] t = "HSBK" -> 8
      [] t = "LifxIdent" -> 16
      [] t = "LifxString" -> 32
      [] t = "EchoPayload" -> 64

NonZero(b) == b > 0

\* LifxString's reader: the 32 bytes of the field without the NUL bytes.
ReadLifxString(p, pos) == SelectSeq(SubSeq(p, pos + 1, pos + 32), NonZero)

ReadHSBK(p, pos) ==
    [hue |-> U16At(p, pos), saturation |-> U16At(p, pos + 2),
     brightness |-> U16At(p, pos + 4), kelvin |-> U16At(p, pos + 6)]

\* read_val for a field of type t at offset pos (an f32 is kept as its bits).
ReadVal(t, p, pos) ==
    CASE t = "u8" -> U8At(p, pos)
      [] t = "u16" -> U16At(p, pos)
      [] t = "i16" -> I16At(p, pos)
      [] t = "u32" -> U32At(p, pos)
      [] t = "f32" -> U32At(p, pos)
      [] t = "u64" -> U64At(p, pos)
      [] t = "HSBK" -> ReadHSBK(p, pos)
      [] t = "LifxIdent" -> SubSeq(p, pos + 1, pos + 16)
      [] t = "LifxString" -> ReadLifxString(p, pos)
      [] t = "EchoPayload" -> SubSeq(p, pos + 1, pos + 64)

PowerLevelEnabled == 65535
PowerLevelStandby == 0
ServiceUDP == 1

\* TryFrom<u16> for PowerLevel
PowerLevelTryFrom(x) ==
    IF x = PowerLevelEnabled THEN Ok("Enabled")
    ELSE IF x = PowerLevelStandby THEN Ok("Standby")
    ELSE Err("ProtocolError")

\* TryFrom<u8> for Service
ServiceTryFrom(x) == IF x # ServiceUDP THEN Err("ProtocolError") ELSE Ok("UDP")

\* TryFrom<u8> for ApplicationRequest
ApplicationRequestTryFrom(x) ==
    CASE x = 0 -> Ok("NoApply")
      [] x = 1 -> Ok("Apply")
      [] x = 2 -> Ok("ApplyOnly")
      [] OTHER -> Err("ProtocolError")

(***************************************************************************)
(* msg.rs: Message::get_num and Message::from_raw.                         *)
(***************************************************************************)
get_num(name) ==
    CASE name = "GetService" -> 2
      [] name = "StateService" -> 3
      [] name = "GetHostInfo" -> 12
      [] name = "StateHostInfo" -> 13
      [] name = "GetHostFirmware" -> 14
      [] name = "StateHostFirmware" -> 15
      [] name = "GetWifiInfo" -> 16
      [] name = "StateWifiInfo" -> 17
      [] name = "GetWifiFirmware" -> 18
      [] name = "StateWifiFirmware" -> 19
      [] name = "GetPower" -> 20
      [] name = "SetPower" -> 21
      [] name = "StatePower" -> 22
      [] name = "GetLabel" -> 23
      [] name = "SetLabel" -> 24
      [] name = "StateLabel" -> 25
      [] name = "GetVersion" -> 32
      [] name = "StateVersion" -> 33
      [] name = "GetInfo" -> 34
      [] name = "StateInfo" -> 35
      [] name = "Acknowledgement" -> 45
      [] name = "GetLocation" -> 48
      [] name = "SetLocation" -> 49
      [] name = "StateLocation" -> 50
      [] name = "GetGroup" -> 51
      [] name = "SetGroup" -> 52
      [] name = "StateGroup" -> 53
      [] name = "EchoRequest" -> 58
      [] name = "EchoResponse" -> 59
      [] name = "LightGet" -> 101
      [] name = "LightSetColor" -> 102
      [] name = "SetWaveform" -> 103
      [] name = "LightState" -> 107
      [] name = "LightGetPower" -> 116
      [] name = "LightSetPower" -> 117
      [] name = "LightStatePower" -> 118
      [] name = "SetWaveformOptional" -> 119
      [] name = "LightGetInfrared" -> 120
      [] name = "LightStateInfrared" -> 121
      [] name = "LightSetInfrared" -> 122
      [] name = "SetColorZones" -> 501
      [] name = "GetColorZones" -> 502
      [] name = "StateZone" -> 503
      [] name = "StateMultiZone" -> 506

\* The arms of from_raw's match: the type codes it decodes and the variant
\* each arm constructs.
FromRawVariant(typ) ==
    CASE typ = 2 -> "GetService"
      [] typ = 3 -> "StateService"
      [] typ = 12 -> "GetHostInfo"
      [] typ = 13 -> "StateHostInfo"
      [] typ = 14 -> "GetHostFirmware"
      [] typ = 15 -> "StateHostFirmware"
      [] typ = 16 -> "GetWifiInfo"
      [] typ = 17 -> "StateWifiInfo"
      [] typ = 18 -> "GetWifiFirmware"
      [] typ = 19 -> "StateWifiFirmware"
      [] typ = 20 -> "GetPower"
      [] typ = 22 -> "StatePower"
      [] typ = 23 -> "GetLabel"
      [] typ = 25 -> "StateLabel"
      [] typ = 32 -> "GetVersion"
      [] typ = 33 -> "StateVersion"
      [] typ = 35 -> "StateInfo"
      [] typ = 45 -> "Acknowledgement"
      [] typ = 48 -> "GetLocation"
      [] typ = 50 -> "StateLocation"
      [] typ = 51 -> "GetGroup"
      [] typ = 53 -> "StateGroup"
      [] typ = 58 -> "EchoRequest"
      [] typ = 59 -> "EchoResponse"
      [] typ = 101 -> "LightGet"
      [] typ = 102 -> "LightSetColor"
      [] typ = 107 -> "LightState"
      [] typ = 116 -> "LightGetPower"
      [] typ = 117 -> "LightSetPower"
      [] typ = 118 -> "LightStatePower"
      [] typ = 121 -> "LightStateInfrared"
      [] typ = 501 -> "SetColorZones"
      [] typ = 502 -> "GetColorZones"
      [] typ = 503 -> "StateZone"
      [] typ = 506 -> "StateMultiZone"
      [] OTHER -> "none"

\* The fields each arm of from_raw reads, in the order it reads them.
FromRawLayout(typ) ==
    CASE typ = 3 -> <<<<"service", "u8">>, <<"port", "u32">>>>
      [] typ \in {13, 17} ->
            <<<<"signal", "f32">>, <<"tx", "u32">>, <<"rx", "u32">>, <<"reserved", "i16">>>>
      [] typ \in {15, 19} ->
            <<<<"build", "u64">>, <<"reserved", "u64">>, <<"version", "u32">>>>
      [] typ = 22 -> <<<<"level", "u16">>>>
      [] typ = 25 -> <<<<"label", "LifxString">>>>
      [] typ = 33 -> <<<<"vendor", "u32">>, <<"product", "u32">>, <<"version", "u32">>>>
      [] typ = 35 -> <<<<"time", "u64">>, <<"uptime", "u64">>, <<"downtime", "u64">>>>
      [] typ = 50 ->
            <<<<"location", "LifxIdent">>, <<"label", "LifxString">>, <<"updated_at", "u64">>>>
      [] typ = 53 ->
            <<<<"group", "LifxIdent">>, <<"label", "LifxString">>, <<"updated_at", "u64">>>>
      [] typ \in {58, 59} -> <<<<"payload", "EchoPayload">>>>
      [] typ = 102 -> <<<<"reserved", "u8">>, <<"color", "HSBK">>, <<"duration", "u32">>>>
      [] typ = 107 ->
            <<<<"color", "HSBK">>, <<"reserved", "i16">>, <<"power", "u16">>,
              <<"label", "LifxString">>, <<"reserved2", "u64">>>>
      [] typ = 117 -> <<<<"level", "u16">>, <<"duration", "u32">>>>
      [] typ = 118 -> <<<<"level", "u16">>>>
      [] typ = 121 -> <<<<"brightness", "u16">>>>
      [] typ = 501 ->
            <<<<"start_index", "u8">>, <<"end_index", "u8">>, <<"color", "HSBK">>,
              <<"duration", "u32">>, <<"apply", "u8">>>>
      [] typ = 502 -> <<<<"start_index", "u8">>, <<"end_index", "u8">>>>
      [] typ = 503 -> <<<<"count", "u8">>, <<"index", "u8">>, <<"color", "HSBK">>>>
      [] typ = 506 ->
            <<<<"count", "u8">>, <<"index", "u8">>,
              <<"color0", "HSBK">>, <<"color1", "HSBK">>, <<"color2", "HSBK">>,
              <<"color3", "HSBK">>, <<"color4", "HSBK">>, <<"color5", "HSBK">>,
              <<"color6", "HSBK">>, <<"color7", "HSBK">>>>
      [] OTHER -> <<>>

RECURSIVE LayoutSize(_)
LayoutSize(L) == IF L = <<>> THEN 0 ELSE Width(L[1][2]) + LayoutSize(Tail(L))

\* The offset of field i: the cursor position after reading fields 1..i-1.
FieldOffset(L, i) == LayoutSize(SubSeq(L, 1, i - 1))

\* The try_into of the unpack! macro for a field of a variant: the identity
\* except where the variant's field is an enum.
FieldTryInto(variant, field, x) ==
    CASE variant = "StateService" /\ field = "service" -> ServiceTryFrom(x)
      [] variant = "StatePower" /\ field = "level" -> PowerLevelTryFrom(x)
      [] variant = "LightState" /\ field = "power" -> PowerLevelTryFrom(x)
      [] variant = "SetColorZones" /\ field = "apply" -> ApplicationRequestTryFrom(x)
      [] OTHER -> Ok(x)

\* Message::from_raw: every field is read first (a short payload is an Io
\* error of the cursor), then each is converted (a value outside an enum is a
\* ProtocolError).
from_raw(raw) ==
    LET typ == raw.protocol_header.typ
        variant == FromRawVariant(typ)
        L == FromRawLayout(typ)
        p == raw.payload
        conv(i) == FieldTryInto(variant, L[i][1], ReadVal(L[i][2], p, FieldOffset(L, i)))
    IN IF variant = "none" THEN Err("UnknownMessageType")
       ELSE IF variant = "Acknowledgement"
            THEN Ok([typ |-> variant, seq |-> raw.frame_addr.sequence])
       ELSE IF Len(p) < LayoutSize(L) THEN Err("Io")
       ELSE IF \E i \in 1..Len(L) : conv(i).tag # "Ok" THEN Err("ProtocolError")
       ELSE Ok([n \in {"typ"} \cup {L[i][1] : i \in 1..Len(L)} |->
                  IF n = "typ" THEN variant
                  ELSE LET i == CHOOSE j \in 1..Len(L) : L[j][1] = n
                       IN Unwrap(conv(i).val)])

(***************************************************************************)
(* product.rs: get_product_info.  Only the multizone flag is used.         *)
(***************************************************************************)
KnownProducts ==
    {1, 3, 10, 11, 18, 20, 22, 27, 28, 29, 30, 31, 32, 36, 37, 38, 43, 44, 45, 46,
     49, 50, 51, 52, 55, 59, 60, 61}
MultizoneProducts == {31, 32, 38}

get_product_info(vendor, product) ==
    IF vendor = 1 /\ product \in KnownProducts
    THEN Some([multizone |-> product \in MultizoneProducts])
    ELSE None

(***************************************************************************)
(* refreshable_data.rs.  Times are in seconds.                             *)
(***************************************************************************)
RefreshableDataEmpty(max_age, refresh_msg, t) ==
    [data |-> None, max_age |-> max_age, last_updated |-> t, refresh_msg |-> refresh_msg]

\* An update that keeps the value a record already holds.
RefreshableDataUpdateIfEmpty(d, v, t) ==
    IF IsSome(d.data) THEN d ELSE [d EXCEPT !.data = Some(v), !.last_updated = t]

RefreshableDataUpdate(d, v, t) == [d EXCEPT !.data = Some(v), !.last_updated = t]

\* A record that also asks for a refresh at the very end of its max_age.
needs_refresh_at_max_age(d, t) == ~IsSome(d.data) \/ t - d.last_updated >= d.max_age

needs_refresh(d, t) == ~IsSome(d.data) \/ t - d.last_updated > d.max_age

(***************************************************************************)
(* bulb.rs.                                                                *)
(***************************************************************************)
HOUR == 3600
POWER_TTL == 15
COLOR_TTL == 15

ColorUnknown == [mode |-> "Unknown", d |-> None]
ColorSingle(d) == [mode |-> "Single", d |-> Some(d)]
ColorMulti(d) == [mode |-> "Multi", d |-> Some(d)]

\* A bulb whose power level is cached for an hour like the rest.
BulbNewAllHourly(source, target, addr, t) ==
    [last_seen |-> t,
     source |-> source,
     target |-> target,
     addr |-> addr,
     model |-> RefreshableDataEmpty(HOUR, [typ |-> "GetVersion"], t),
     location |-> RefreshableDataEmpty(HOUR, [typ |-> "GetLocation"], t),
     group |-> RefreshableDataEmpty(HOUR, [typ |-> "GetGroup"], t),
     name |-> RefreshableDataEmpty(HOUR, [typ |-> "GetLabel"], t),
     host_firmware |-> RefreshableDataEmpty(HOUR, [typ |-> "GetHostFirmware"], t),
     wifi_firmware |-> RefreshableDataEmpty(HOUR, [typ |-> "GetWifiFirmware"], t),
     power_level |-> RefreshableDataEmpty(HOUR, [typ |-> "GetPower"], t),
     color |-> ColorUnknown]

BulbNew(source, target, addr, t) ==
    [last_seen |-> t,
     source |-> source,
     target |-> target,
     addr |-> addr,
     model |-> RefreshableDataEmpty(HOUR, [typ |-> "GetVersion"], t),
     location |-> RefreshableDataEmpty(HOUR, [typ |-> "GetLocation"], t),
     group |-> RefreshableDataEmpty(HOUR, [typ |-> "GetGroup"], t),
     name |-> RefreshableDataEmpty(HOUR, [typ |-> "GetLabel"], t),
     host_firmware |-> RefreshableDataEmpty(HOUR, [typ |-> "GetHostFirmware"], t),
     wifi_firmware |-> RefreshableDataEmpty(HOUR, [typ |-> "GetWifiFirmware"], t),
     power_level |-> RefreshableDataEmpty(POWER_TTL, [typ |-> "GetPower"], t),
     color |-> ColorUnknown]

BulbUpdate(bulb, addr, t) == [bulb EXCEPT !.last_seen = t, !.addr = addr]

(***************************************************************************)
(* manager.rs: Manager::handle_message.  The result is the bulb as the     *)
(* call leaves it and how the call ended: "Ok", "Err" (from_raw's error,   *)
(* returned), or "Panic" (a failed assertion or an index out of bounds).   *)
(***************************************************************************)
Handled(res, bulb) == [res |-> res, bulb |-> bulb]

\* Vec::with_capacity(count) resized to count entries of None.
EmptyZones(count) == [i \in 1..count |-> None]

\* v[index] = Some(color) for the first n of the given colors in turn: the
\* vector after the writes that are in bounds, stopping at the first that is
\* not.
RECURSIVE WriteZones(_, _, _)
WriteZones(v, index, colors) ==
    IF colors = <<>> \/ index >= Len(v) THEN v
    ELSE WriteZones([v EXCEPT ![index + 1] = Some(colors[1])], index + 1, Tail(colors))

\* The StateZone arm.
HandleStateZone(m, bulb) ==
    IF bulb.color.mode # "Multi" THEN Handled("Ok", bulb)
    ELSE LET d == Unwrap(bulb.color.d) IN
         IF ~IsSome(d.data) /\ ~(m.index <= m.count)
         THEN Handled("Panic", bulb)
         ELSE LET v == IF IsSome(d.data) THEN Unwrap(d.data) ELSE EmptyZones(m.count)
                  w == WriteZones(v, m.index, <<m.color>>)
                  after == [bulb EXCEPT !.color = ColorMulti([d EXCEPT !.data = Some(w)])]
              IN Handled(IF m.index < Len(v) THEN "Ok" ELSE "Panic", after)

\* index + 7 in u8 arithmetic: with overflow checks (a debug build) an
\* overflow panics, without them (a release build) it wraps.
IndexPlus7Overflows(index) == index + 7 > 255

\* The StateMultiZone arm; overflow_checks tells the build.
HandleStateMultiZone(m, bulb, overflow_checks) ==
    IF bulb.color.mode # "Multi" THEN Handled("Ok", bulb)
    ELSE LET d == Unwrap(bulb.color.d)
             colors == <<m.color0, m.color1, m.color2, m.color3,
                         m.color4, m.color5, m.color6, m.color7>>
         IN
         IF ~IsSome(d.data)
            /\ \/ (overflow_checks /\ IndexPlus7Overflows(m.index))
               \/ ~((m.index + 7) % 256 <= m.count)
         THEN Handled("Panic", bulb)
         ELSE LET v == IF IsSome(d.data) THEN Unwrap(d.data) ELSE EmptyZones(m.count)
                  w == WriteZones(v, m.index, colors)
                  after == [bulb EXCEPT !.color = ColorMulti([d EXCEPT !.data = Some(w)])]
              IN Handled(IF m.index + 7 < Len(v) THEN "Ok" ELSE "Panic", after)

\* The StateVersion arm.
HandleStateVersion(m, bulb, t) ==
    LET b1 == [bulb EXCEPT !.model = RefreshableDataUpdate(@, <<m.vendor, m.product>>, t)]
        info == get_product_info(m.vendor, m.product)
    IN IF ~IsSome(info) THEN Handled("Ok", b1)
       ELSE IF Unwrap(info).multizone
       THEN Handled("Ok", [b1 EXCEPT !.color =
                ColorMulti(RefreshableDataEmpty(COLOR_TTL,
                    [typ |-> "GetColorZones", start_index |-> 0, end_index |-> 255], t))])
       ELSE Handled("Ok", [b1 EXCEPT !.color =
                ColorSingle(RefreshableDataEmpty(COLOR_TTL, [typ |-> "LightGet"], t))])

\* A LightState arm that takes the power level whatever the colour mode.
HandleLightStateAnyMode(m, bulb, t) ==
    LET b1 == IF bulb.color.mode = "Single"
              THEN [bulb EXCEPT
                      !.color = ColorSingle(RefreshableDataUpdate(Unwrap(@.d), m.color, t))]
              ELSE bulb
    IN Handled("Ok", [b1 EXCEPT !.power_level = RefreshableDataUpdate(@, m.power, t),
                                !.name = RefreshableDataUpdate(@, m.label, t)])

\* The LightState arm.
HandleLightState(m, bulb, t) ==
    LET b1 == IF bulb.color.mode = "Single"
              THEN [bulb EXCEPT
                      !.color = ColorSingle(RefreshableDataUpdate(Unwrap(@.d), m.color, t)),
                      !.power_level = RefreshableDataUpdate(@, m.power, t)]
              ELSE bulb
    IN Handled("Ok", [b1 EXCEPT !.name = RefreshableDataUpdate(@, m.label, t)])

\* A match whose StateGroup arm writes the label to location.
DispatchMessageGroupIntoLocation(m, bulb, t, overflow_checks) ==
    CASE m.typ = "StateLabel" ->
            Handled("Ok", [bulb EXCEPT !.name = RefreshableDataUpdate(@, m.label, t)])
      [] m.typ \in {"StateLocation", "StateGroup"} ->
            Handled("Ok", [bulb EXCEPT !.location = RefreshableDataUpdate(@, m.label, t)])
      [] m.typ = "StateVersion" -> HandleStateVersion(m, bulb, t)
      [] m.typ = "StatePower" ->
            Handled("Ok", [bulb EXCEPT !.power_level = RefreshableDataUpdate(@, m.level, t)])
      [] m.typ = "StateHostFirmware" ->
            Handled("Ok", [bulb EXCEPT !.host_firmware = RefreshableDataUpdate(@, m.version, t)])
      [] m.typ = "StateWifiFirmware" ->
            Handled("Ok", [bulb EXCEPT !.wifi_firmware = RefreshableDataUpdate(@, m.version, t)])
      [] m.typ = "LightState" -> HandleLightState(m, bulb, t)
      [] m.typ = "StateZone" -> HandleStateZone(m, bulb)
      [] m.typ = "StateMultiZone" -> HandleStateMultiZone(m, bulb, overflow_checks)
      [] OTHER -> Handled("Ok", bulb)

\* The arms of handle_message's match on the decoded message.
DispatchMessage(m, bulb, t, overflow_checks) ==
    CASE m.typ = "StateService" -> Handled("Ok", bulb)
      [] m.typ = "StateLabel" ->
            Handled("Ok", [bulb EXCEPT !.name = RefreshableDataUpdate(@, m.label, t)])
      [] m.typ = "StateLocation" ->
            Handled("Ok", [bulb EXCEPT !.location = RefreshableDataUpdate(@, m.label, t)])
      [] m.typ = "StateVersion" -> HandleStateVersion(m, bulb, t)
      [] m.typ = "StatePower" ->
            Handled("Ok", [bulb EXCEPT !.power_level = RefreshableDataUpdate(@, m.level, t)])
      [] m.typ = "StateHostFirmware" ->
            Handled("Ok", [bulb EXCEPT !.host_firmware = RefreshableDataUpdate(@, m.version, t)])
      [] m.typ = "StateWifiFirmware" ->
            Handled("Ok", [bulb EXCEPT !.wifi_firmware = RefreshableDataUpdate(@, m.version, t)])
      [] m.typ = "LightState" -> HandleLightState(m, bulb, t)
      [] m.typ = "StateZone" -> HandleStateZone(m, bulb)
      [] m.typ = "StateMultiZone" -> HandleStateMultiZone(m, bulb, overflow_checks)
      [] m.typ = "StateGroup" ->
            Handled("Ok", [bulb EXCEPT !.group = RefreshableDataUpdate(@, m.label, t)])
      [] OTHER -> Handled("Ok", bulb)

\* handle_message with from_raw's result unwrapped instead of returned.
handle_message_unwrap(raw, bulb, t, overflow_checks) ==
    LET r == from_raw(raw) IN
    IF r.tag # "Ok" THEN Handled("Panic", bulb)
    ELSE DispatchMessage(Unwrap(r.val), bulb, t, overflow_checks)

\* Message::from_raw(&raw)? returns the error before any arm runs.
handle_message(raw, bulb, t, overflow_checks) ==
    LET r == from_raw(raw) IN
    IF r.tag # "Ok" THEN Handled("Err", bulb)
    ELSE DispatchMessage(Unwrap(r.val), bulb, t, overflow_checks)

(***************************************************************************)
(* msg.rs: RawMessage::build.                                              *)
(***************************************************************************)
\* The fields build writes for each variant, in the order it writes them.
BuildLayout(name) ==
    CASE name = "SetColorZones" ->
            <<<<"start_index", "u8">>, <<"end_index", "u8">>, <<"color", "HSBK">>,
              <<"duration", "u32">>, <<"apply", "ApplicationRequest">>>>
      [] name = "SetWaveform" ->
            <<<<"reserved", "u8">>, <<"transient", "bool">>, <<"color", "HSBK">>,
              <<"period", "u32">>, <<"cycles", "f32">>, <<"skew_ratio", "i16">>,
              <<"waveform", "Waveform">>>>
      [] name = "SetWaveformOptional" ->
            <<<<"reserved", "u8">>, <<"transient", "bool">>, <<"color", "HSBK">>,
              <<"period", "u32">>, <<"cycles", "f32">>, <<"skew_ratio", "i16">>,
              <<"waveform", "Waveform">>, <<"set_hue", "bool">>,
              <<"set_saturation", "bool">>, <<"set_brightness", "bool">>,
              <<"set_kelvin", "bool">>>>
      [] name = "GetColorZones" -> <<<<"start_index", "u8">>, <<"end_index", "u8">>>>
      [] name = "StateZone" -> <<<<"count", "u8">>, <<"index", "u8">>, <<"color", "HSBK">>>>
      [] name = "StateMultiZone" ->
            <<<<"count", "u8">>, <<"index", "u8">>,
              <<"color0", "HSBK">>, <<"color1", "HSBK">>, <<"color2", "HSBK">>,
              <<"color3", "HSBK">>, <<"color4", "HSBK">>, <<"color5", "HSBK">>,
              <<"color6", "HSBK">>, <<"color7", "HSBK">>>>
      [] name \in {"LightStateInfrared", "LightSetInfrared"} -> <<<<"brightness", "u16">>>>
      [] name \in {"SetLocation", "StateLocation"} ->
            <<<<"location", "LifxIdent">>, <<"label", "LifxString">>, <<"updated_at", "u64">>>>
      [] name \in {"SetGroup", "StateGroup"} ->
            <<<<"group", "LifxIdent">>, <<"label", "LifxString">>, <<"updated_at", "u64">>>>
      [] name = "StateService" -> <<<<"port", "u32">>, <<"service", "Service">>>>
      [] name \in {"StateHostInfo", "StateWifiInfo"} ->
            <<<<"signal", "f32">>, <<"tx", "u32">>, <<"rx", "u32">>, <<"reserved", "i16">>>>
      [] name \in {"StateHostFirmware", "StateWifiFirmware"} ->
            <<<<"build", "u64">>, <<"reserved", "u64">>, <<"version", "u32">>>>
      [] name \in {"SetPower", "StatePower"} -> <<<<"level", "PowerLevel">>>>
      [] name \in {"SetLabel", "StateLabel"} -> <<<<"label", "LifxString">>>>
      [] name = "StateVersion" ->
            <<<<"vendor", "u32">>, <<"product", "u32">>, <<"version", "u32">>>>
      [] name = "StateInfo" ->
            <<<<"time", "u64">>, <<"uptime", "u64">>, <<"downtime", "u64">>>>
      [] name \in {"EchoRequest", "EchoResponse"} -> <<<<"payload", "EchoPayload">>>>
      [] name = "LightSetColor" ->
            <<<<"reserved", "u8">>, <<"color", "HSBK">>, <<"duration", "u32">>>>
      [] name = "LightState" ->
            <<<<"color", "HSBK">>, <<"reserved", "i16">>, <<"power", "PowerLevel">>,
              <<"label", "LifxString">>, <<"reserved2", "u64">>>>
      [] name = "LightSetPower" -> <<<<"level", "OnOff">>, <<"duration", "u32">>>>
      [] name = "LightStatePower" -> <<<<"level", "u16">>>>
      [] OTHER -> <<>>

WriteHSBK(c) == LE16(c.hue) \o LE16(c.saturation) \o LE16(c.brightness) \o LE16(c.kelvin)

\* v.0.len(), the length of the String in bytes of UTF-8: a character above
\* 127 (the reader pushes `c as char` for a byte c) takes two, one from
\* U+0800 three, one above U+FFFF four.
RECURSIVE Utf8Len(_)
Utf8Len(x) ==
    IF x = <<>> THEN 0
    ELSE (IF x[1] < 128 THEN 1 ELSE IF x[1] < 2048 THEN 2 ELSE IF x[1] < 65536 THEN 3 ELSE 4)
         + Utf8Len(Tail(x))

\* LifxString's writer: for idx in 0..32 a NUL if idx >= v.0.len(), else
\* v.0.chars().nth(idx).unwrap() as u8, which panics when the String has
\* fewer than idx + 1 characters.
WriteLifxString(x) ==
    IF \E idx \in 0..31 : idx < Utf8Len(x) /\ idx >= Len(x)
    THEN Panic
    ELSE [i \in 1..32 |-> IF i - 1 >= Utf8Len(x) THEN 0 ELSE x[i] % 256]

EnumRepr(x) ==
    CASE x = "Enabled" -> PowerLevelEnabled
      [] x = "Standby" -> PowerLevelStandby
      [] x = "UDP" -> ServiceUDP
      [] x = "NoApply" -> 0
      [] x = "Apply" -> 1
      [] x = "ApplyOnly" -> 2
      [] x = "Saw" -> 0
      [] x = "Sine" -> 1
      [] x = "HalfSign" -> 2
      [] x = "Triangle" -> 3
      [] x = "Pulse" -> 4

\* write_val for a field of type t.
WriteVal(t, x) ==
    CASE t = "u8" -> LE8(x)
      [] t = "bool" -> LE8(IF x THEN 1 ELSE 0)
      [] t = "u16" -> LE16(x)
      [] t = "i16" -> LEI16(x)
      [] t = "u32" -> LE32(x)
      [] t = "f32" -> LE32(x)
      [] t = "u64" -> LE64(x)
      [] t = "HSBK" -> WriteHSBK(x)
      [] t = "LifxIdent" -> x
      [] t = "EchoPayload" -> x
      [] t = "LifxString" -> WriteLifxString(x)
      [] t = "PowerLevel" -> LE16(EnumRepr(x))
      [] t \in {"Service", "ApplicationRequest", "Waveform"} -> LE8(EnumRepr(x))
      [] t = "OnOff" -> LE16(IF x > 0 THEN 65535 ELSE 0)

\* A write_val of build panics: the writer of a label does.
BuildPanics(m, L) ==
    \E i \in 1..Len(L) : L[i][2] = "LifxString" /\ WriteLifxString(m[L[i][1]]) = Panic

RECURSIVE BuildPayload(_, _)
BuildPayload(m, L) ==
    IF L = <<>> THEN <<>>
    ELSE IF BuildPanics(m, L) THEN Panic
    ELSE WriteVal(L[1][2], m[L[1][1]]) \o BuildPayload(m, Tail(L))

BuildOptionsDefault ==
    [target |-> None, ack_required |-> FALSE, res_required |-> FALSE,
     sequence |-> 0, source |-> 0]

\* A build that leaves frame.size as the Frame literal sets it.
RawMessageBuildSizeUnset(options, m) ==
    LET payload == BuildPayload(m, BuildLayout(m.typ)) IN
    [frame |-> [size |-> 0,
                origin |-> 0,
                tagged |-> ~IsSome(options.target),
                addressable |-> TRUE,
                protocol |-> LIFX_PROTOCOL,
                source |-> options.source],
     frame_addr |-> [target |-> IF IsSome(options.target) THEN Unwrap(options.target) ELSE 0,
                     reserved |-> Zeros(6),
                     reserved2 |-> 0,
                     ack_required |-> options.ack_required,
                     res_required |-> options.res_required,
                     sequence |-> options.sequence],
     protocol_header |-> [reserved |-> 0, typ |-> get_num(m.typ), reserved2 |-> 0],
     payload |-> payload]

\* A build that does not copy the options' sequence number.
RawMessageBuildNoSequence(options, m) ==
    LET raw == RawMessageBuildSizeUnset(options, m)
    IN [raw EXCEPT !.frame.size = HeaderSize + Len(raw.payload),
                   !.frame_addr.sequence = 0]

RawMessageBuild(options, m) ==
    IF BuildPanics(m, BuildLayout(m.typ)) THEN Panic ELSE
    LET payload == BuildPayload(m, BuildLayout(m.typ)) IN
    [frame |-> [size |-> HeaderSize + Len(payload),
                origin |-> 0,
                tagged |-> ~IsSome(options.target),
                addressable |-> TRUE,
                protocol |-> LIFX_PROTOCOL,
                source |-> options.source],
     frame_addr |-> [target |-> IF IsSome(options.target) THEN Unwrap(options.target) ELSE 0,
                     reserved |-> Zeros(6),
                     reserved2 |-> 0,
                     ack_required |-> options.ack_required,
                     res_required |-> options.res_required,
                     sequence |-> options.sequence],
     protocol_header |-> [reserved |-> 0, typ |-> get_num(m.typ), reserved2 |-> 0],
     payload |-> payload]

(***************************************************************************)
(* bulb.rs: query_for_missing_info and refresh_if_needed.                  *)
(***************************************************************************)
\* The attributes query_for_missing_info looks at, in its order; the colour
\* record comes last and only when the colour mode is known.
RefreshableFields(bulb) ==
    <<bulb.name, bulb.group, bulb.model, bulb.location,
      bulb.host_firmware, bulb.wifi_firmware, bulb.power_level>>
    \o (IF bulb.color.mode = "Unknown" THEN <<>> ELSE <<Unwrap(bulb.color.d)>>)

\* The datagram refresh_if_needed sends for an attribute that needs a refresh.
RefreshDatagram(bulb, data) ==
    [to |-> bulb.addr,
     raw |-> RawMessageBuild([BuildOptionsDefault EXCEPT
                                 !.target = Some(bulb.target),
                                 !.res_required = TRUE,
                                 !.source = bulb.source],
                             data.refresh_msg)]

\* A query that asks for every attribute, stale or not.
query_every_field(bulb, t) ==
    LET all == RefreshableFields(bulb)
    IN [i \in 1..Len(all) |-> RefreshDatagram(bulb, all[i])]

\* The datagrams a complete query_for_missing_info hands to send_to, in order.
query_for_missing_info(bulb, t) ==
    LET Needs(d) == needs_refresh(d, t)
        need == SelectSeq(RefreshableFields(bulb), Needs)
    IN [i \in 1..Len(need) |-> RefreshDatagram(bulb, need[i])]

(***************************************************************************)
(* The inputs: the datagrams that arrive on the socket and where from.     *)
(***************************************************************************)
\* Manager::new: the manager's source identifier, 0x72757374.
SOURCE == 1920299892
LIFX_PORT == 56700

\* The most datagrams recv_from returns in a run, and the last clock value.
MaxRecv == 3
MaxNow == 1

\* Two devices (target, the address they send from first) and a second address.
Addr1 == [ip |-> 2, port |-> LIFX_PORT]
Addr2 == [ip |-> 3, port |-> LIFX_PORT]
DeviceTargets == <<1, 2>>
T1 == DeviceTargets[1]
T2 == DeviceTargets[2]

Red == [hue |-> 0, saturation |-> 65535, brightness |-> 32768, kelvin |-> 3500]
Blue == [hue |-> 43690, saturation |-> 65535, brightness |-> 65535, kelvin |-> 3500]
Colors8 == <<Red, Blue, Red, Blue, Red, Blue, Red, Blue>>
LabelA == <<76, 97>>

\* A datagram as a device sends it: the headers of a reply and the payload.
DeviceRaw(target, typ, payload) ==
    [frame |-> [size |-> HeaderSize + Len(payload), origin |-> 0, tagged |-> FALSE,
                addressable |-> TRUE, protocol |-> LIFX_PROTOCOL, source |-> SOURCE],
     frame_addr |-> [target |-> target, reserved |-> Zeros(6), reserved2 |-> 0,
                     ack_required |-> FALSE, res_required |-> FALSE, sequence |-> 0],
     protocol_header |-> [reserved |-> 0, typ |-> typ, reserved2 |-> 0],
     payload |-> payload]

Device(target, typ, payload) == RawMessagePack(DeviceRaw(target, typ, payload))

\* Payloads in the layout of the LIFX LAN protocol.
PayStateService(service, port) == LE8(service) \o LE32(port)
PayStateVersion(vendor, product) == LE32(vendor) \o LE32(product) \o LE32(0)
PayStatePower(level) == LE16(level)
PayStateLabel(label) == WriteLifxString(label)
PayStateLocation(label) == Zeros(16) \o WriteLifxString(label) \o LE64(0)
PayStateFirmware(version) == LE64(0) \o LE64(0) \o LE32(version)
PayLightState(color, power, label) ==
    WriteHSBK(color) \o LE16(0) \o LE16(power) \o WriteLifxString(label) \o LE64(0)
PayStateZone(count, index, color) == LE8(count) \o LE8(index) \o WriteHSBK(color)
PayStateMultiZone(count, index) ==
    LE8(count) \o LE8(index)
    \o WriteHSBK(Colors8[1]) \o WriteHSBK(Colors8[2]) \o WriteHSBK(Colors8[3])
    \o WriteHSBK(Colors8[4]) \o WriteHSBK(Colors8[5]) \o WriteHSBK(Colors8[6])
    \o WriteHSBK(Colors8[7]) \o WriteHSBK(Colors8[8])

\* The (count, index) pairs of the zone messages that arrive.
ZoneShapes == {<<2, 0>>, <<3, 2>>, <<2, 2>>, <<2, 3>>}
MultiZoneShapes == {<<8, 0>>, <<9, 1>>, <<8, 1>>, <<4, 0>>, <<255, 250>>}

\* Well-formed replies of the device with target T1.
Replies ==
    {Device(T1, 3, PayStateService(ServiceUDP, LIFX_PORT)),
     Device(T1, 33, PayStateVersion(1, 1)),
     Device(T1, 33, PayStateVersion(1, 31)),
     Device(T1, 33, PayStateVersion(1, 99)),
     Device(T1, 25, PayStateLabel(LabelA)),
     Device(T1, 107, PayLightState(Red, PowerLevelEnabled, LabelA))}
    \cup {Device(T1, 503, PayStateZone(z[1], z[2], Blue)) : z \in ZoneShapes}
    \cup {Device(T1, 506, PayStateMultiZone(z[1], z[2])) : z \in MultiZoneShapes}

\* Datagrams that unpack but whose payload from_raw rejects.
Undecodable ==
    {Device(T1, 999, <<>>),
     Device(T1, 22, PayStatePower(1)),
     Device(T1, 33, LE32(1)),
     Device(T2, 3, PayStateService(5, LIFX_PORT))}

\* A datagram with the given header fields and no payload.
Header(size, addressable, protocol, target) ==
    RawMessagePack([DeviceRaw(target, 3, <<>>) EXCEPT
                       !.frame.size = size,
                       !.frame.addressable = addressable,
                       !.frame.protocol = protocol])

\* Datagrams whose headers are short, inconsistent or not of the protocol.
Malformed ==
    {<<>>,
     SubSeq(Header(HeaderSize, TRUE, LIFX_PROTOCOL, T1), 1, 3),
     SubSeq(Header(HeaderSize, TRUE, LIFX_PROTOCOL, T1), 1, 20),
     SubSeq(Header(HeaderSize, TRUE, LIFX_PROTOCOL, T1), 1, 35),
     Header(HeaderSize, TRUE, LIFX_PROTOCOL + 1, T1),
     Header(HeaderSize, FALSE, LIFX_PROTOCOL, T1),
     Header(HeaderSize - 1, TRUE, LIFX_PROTOCOL, T1),
     Header(HeaderSize + 4, TRUE, LIFX_PROTOCOL, T1)}

\* The receive task's buffer: let mut buf = [0; 1024].
BufLen == 1024

\* A StateService with zero bytes after it, one byte longer than the buffer;
\* its frame.size is its length.
Oversized == {Device(T1, 3, PayStateService(ServiceUDP, LIFX_PORT) \o Zeros(BufLen - 40))}

Arrival(bytes, addr) == [bytes |-> bytes, addr |-> addr]

\* Everything recv_from may return: a datagram and its sender.
Arrivals ==
    {Arrival(d, Addr1) : d \in Replies \cup Undecodable \cup Malformed \cup Oversized}
    \cup {Arrival(Device(T1, 3, PayStateService(ServiceUDP, LIFX_PORT)), Addr2),
          Arrival(Device(T2, 3, PayStateService(ServiceUDP, LIFX_PORT)), Addr2),
          Arrival(Device(0, 3, PayStateService(ServiceUDP, LIFX_PORT)), Addr2)}

(***************************************************************************)
(* manager.rs: Manager::discover.  An interface as get_if_addrs reports    *)
(* it: IPv4 or not, whether its address is a loopback address, and its     *)
(* broadcast address if it has one.                                        *)
(***************************************************************************)
Iface(v4, loopback, broadcast) == [v4 |-> v4, loopback |-> loopback, broadcast |-> broadcast]

\* The most interfaces of a host.
MaxIfaces == 3

Bcast1 == Some(255)
Bcast2 == Some(511)
IfaceKinds ==
    {Iface(TRUE, TRUE, None), Iface(TRUE, TRUE, Bcast1), Iface(TRUE, FALSE, Bcast1),
     Iface(TRUE, FALSE, Bcast2), Iface(TRUE, FALSE, None), Iface(FALSE, FALSE, None)}

\* The interfaces of the host the manager of Spec runs on.
HostIfaces == <<Iface(TRUE, TRUE, None), Iface(TRUE, FALSE, Bcast1)>>

\* The lists of interfaces get_if_addrs may report.
IfaceLists == UNION {[1..n -> IfaceKinds] : n \in 0..MaxIfaces}

\* An interface whose broadcast address is open to every address class.
DiscoverableAnyBroadcast(i) == i.v4 /\ IsSome(i.broadcast)

\* The match of discover's loop: IfAddr::V4 with broadcast: Some(bcast), and
\* not a loopback address.
Discoverable(i) == i.v4 /\ IsSome(i.broadcast) /\ ~i.loopback

\* The datagrams a complete discover() hands to send_to, in order.
DiscoverDatagrams(source, ifs) ==
    LET to == SelectSeq(ifs, Discoverable)
        rawmsg == RawMessageBuild([BuildOptionsDefault EXCEPT !.source = source],
                                  [typ |-> "GetService"])
    IN [k \in 1..Len(to) |->
           [to |-> [ip |-> Unwrap(to[k].broadcast), port |-> LIFX_PORT], raw |-> rawmsg]]

(***************************************************************************)
(* The state.                                                              *)
(***************************************************************************)
VARIABLES
    bulbs,           \* Manager.bulbs: the registry, a map target -> Bulb
    mutex,           \* the registry's Mutex: who holds it, whether it is poisoned
    worker_pc,       \* the receive task: "recv", "lock", "handle" or "dead"
    pending,         \* the unpacked message and sender the receive task holds
    owner_pc,        \* the owner's thread: "idle", "refresh", "returned" or "inspect"
    sent,            \* the datagrams the refresh() that just ended handed to send_to
    refresh_result,  \* how the refresh() that just ended did end
    now,             \* the clock, in seconds
    nrecv,           \* the number of datagrams recv_from has returned
    seen,            \* history: the non-zero targets of the datagrams that unpacked
    last,            \* history: what the receive task did last
    ifaces,          \* the network interfaces get_if_addrs reports
    last_discovery,  \* Manager.last_discovery
    probe            \* a value under study outside a manager, and what was computed from it

vars == <<bulbs, mutex, worker_pc, pending, owner_pc, sent, refresh_result,
          now, nrecv, seen, last, ifaces, last_discovery, probe>>

\* What the receive task, refresh() and the clock leave alone.
aux == <<ifaces, last_discovery, probe>>

NoneHeld == "none"
Unlocked(m) == m.holder = NoneHeld

\* A lock that is granted whoever holds the mutex.
CanLockAlways(m) == TRUE

\* Mutex::lock blocks until no thread holds the mutex.
CanLock(m) == Unlocked(m)

Event(ev, res) == [ev |-> ev, res |-> res]

\* The state Manager::new leaves: an empty registry, the receive task
\* blocked in recv_from.
Init ==
    /\ bulbs = <<>>
    /\ mutex = [holder |-> NoneHeld, poisoned |-> FALSE]
    /\ worker_pc = "recv"
    /\ pending = None
    /\ owner_pc = "idle"
    /\ sent = {}
    /\ refresh_result = "none"
    /\ now = 0
    /\ nrecv = 0
    /\ seen = {}
    /\ last = Event("none", "none")
    /\ ifaces = HostIfaces
    /\ last_discovery = 0
    /\ probe = None

(***************************************************************************)
(* manager.rs: Manager::worker, the receive task.                          *)
(***************************************************************************)
\* &buf[0..nbytes] after recv_from(&mut buf): the datagram, cut to the length
\* of the buffer.
Received(bytes) ==
    IF Len(bytes) > BufLen THEN SubSeq(bytes, 1, BufLen) ELSE bytes

\* recv_from returns a datagram; it is unpacked outside the lock.
WorkerRecvFrom(arrivals) ==
    /\ worker_pc = "recv"
    /\ nrecv < MaxRecv
    /\ \E a \in arrivals :
         LET u == IF Len(a.bytes) = 0 THEN Err("zero")
                  ELSE RawMessageUnpack(Received(a.bytes)) IN
         /\ nrecv' = nrecv + 1
         /\ IF u.tag = "Panic"
            THEN /\ worker_pc' = "dead"
                 /\ last' = Event("unpack_panic", "none")
                 /\ UNCHANGED <<pending, seen>>
            ELSE IF u.tag = "Err"
            THEN /\ worker_pc' = "recv"
                 /\ last' = Event(IF u.err = "zero" THEN "zero" ELSE "unpack_err", u.err)
                 /\ UNCHANGED <<pending, seen>>
            ELSE IF Unwrap(u.val).frame_addr.target = 0
            THEN /\ worker_pc' = "recv"
                 /\ last' = Event("target0", "none")
                 /\ UNCHANGED <<pending, seen>>
            ELSE /\ worker_pc' = "lock"
                 /\ pending' = Some([raw |-> Unwrap(u.val), addr |-> a.addr])
                 /\ seen' = seen \cup {Unwrap(u.val).frame_addr.target}
                 /\ last' = Event("unpacked", "none")
    /\ UNCHANGED <<bulbs, mutex, owner_pc, sent, refresh_result, now>>
    /\ UNCHANGED aux

WorkerRecv == WorkerRecvFrom(Arrivals)

\* recv_from fails: the task panics, holding no lock.
WorkerRecvError ==
    /\ worker_pc = "recv"
    /\ worker_pc' = "dead"
    /\ last' = Event("recv_err", "none")
    /\ UNCHANGED <<bulbs, mutex, pending, owner_pc, sent, refresh_result, now, nrecv, seen>>
    /\ UNCHANGED aux

\* A registry that holds the bulb heard last and no other.
RegistryEntrySingle(registry, raw, addr, t) ==
    LET target == raw.frame_addr.target IN
    [k \in {target} |->
        IF target \in DOMAIN registry
        THEN BulbUpdate(registry[target], addr, t)
        ELSE BulbNew(SOURCE, target, addr, t)]

\* bulbs.entry(target).and_modify(|b| b.update(addr)).or_insert_with(Bulb::new)
RegistryEntry(registry, raw, addr, t) ==
    LET target == raw.frame_addr.target IN
    IF target \in DOMAIN registry
    THEN [registry EXCEPT ![target] = BulbUpdate(@, addr, t)]
    ELSE [k \in DOMAIN registry \cup {target} |->
            IF k = target THEN BulbNew(SOURCE, target, addr, t) ELSE registry[k]]

\* receiver_bulbs.lock(): on a poisoned mutex the packet is skipped; else the
\* socket is cloned and the bulb is looked up or inserted, under the lock.  A
\* try_clone that fails panics in unwrap with the guard held: the mutex is
\* poisoned and the task ends.
WorkerLock ==
    /\ worker_pc = "lock"
    /\ CanLock(mutex)
    /\ LET p == Unwrap(pending) IN
       IF mutex.poisoned
       THEN /\ worker_pc' = "recv"
            /\ pending' = None
            /\ last' = Event("lock_poisoned", "none")
            /\ UNCHANGED <<bulbs, mutex>>
       ELSE \E clone_ok \in BOOLEAN :
            IF clone_ok
            THEN /\ worker_pc' = "handle"
                 /\ mutex' = [mutex EXCEPT !.holder = "worker"]
                 /\ bulbs' = RegistryEntry(bulbs, p.raw, p.addr, now)
                 /\ last' = Event(IF p.raw.frame_addr.target \in DOMAIN bulbs
                                  THEN "entry_old" ELSE "entry_new", "none")
                 /\ UNCHANGED pending
            ELSE /\ worker_pc' = "dead"
                 /\ mutex' = [holder |-> NoneHeld, poisoned |-> TRUE]
                 /\ pending' = None
                 /\ last' = Event("clone_panic", "none")
                 /\ UNCHANGED bulbs
    /\ UNCHANGED <<owner_pc, sent, refresh_result, now, nrecv, seen>>
    /\ UNCHANGED aux

\* The receive task with a guard that outlives the block of the packet.
WorkerHandleKeepsGuard ==
    /\ worker_pc = "handle"
    /\ \E overflow_checks \in BOOLEAN :
         LET p == Unwrap(pending)
             target == p.raw.frame_addr.target
             h == handle_message(p.raw, bulbs[target], now, overflow_checks)
         IN /\ bulbs' = [bulbs EXCEPT ![target] = h.bulb]
            /\ worker_pc' = IF h.res = "Panic" THEN "dead" ELSE "recv"
            /\ mutex' = [holder |-> IF h.res = "Panic" THEN NoneHeld ELSE "worker",
                         poisoned |-> h.res = "Panic"]
            /\ last' = Event("handled", h.res)
    /\ pending' = None
    /\ UNCHANGED <<owner_pc, sent, refresh_result, now, nrecv, seen>>
    /\ UNCHANGED aux

\* handle_message on the bulb of the entry; the guard is dropped at the end
\* of the block, and by the unwinding of a panic, which poisons the mutex.
WorkerHandle ==
    /\ worker_pc = "handle"
    /\ \E overflow_checks \in BOOLEAN :
         LET p == Unwrap(pending)
             target == p.raw.frame_addr.target
             h == handle_message(p.raw, bulbs[target], now, overflow_checks)
         IN /\ bulbs' = [bulbs EXCEPT ![target] = h.bulb]
            /\ worker_pc' = IF h.res = "Panic" THEN "dead" ELSE "recv"
            /\ mutex' = [holder |-> NoneHeld, poisoned |-> h.res = "Panic"]
            /\ last' = Event("handled", h.res)
    /\ pending' = None
    /\ UNCHANGED <<owner_pc, sent, refresh_result, now, nrecv, seen>>
    /\ UNCHANGED aux

(***************************************************************************)
(* manager.rs: Manager::refresh, and the owner's inspection of bulbs       *)
(* (examples/better_day_dusk: if let Ok(bulbs) = mgr.bulbs.lock()).        *)
(***************************************************************************)
SeqRange(q) == {q[i] : i \in 1..Len(q)}

\* self.bulbs.lock(): refresh does nothing when the mutex is poisoned.
OwnerRefreshLock ==
    /\ owner_pc = "idle"
    /\ CanLock(mutex)
    /\ IF mutex.poisoned
       THEN /\ refresh_result' = "skipped"
            /\ owner_pc' = "returned"
            /\ UNCHANGED <<sent, mutex>>
       ELSE /\ owner_pc' = "refresh"
            /\ mutex' = [mutex EXCEPT !.holder = "owner"]
            /\ UNCHANGED <<refresh_result, sent>>
    /\ UNCHANGED <<bulbs, worker_pc, pending, now, nrecv, seen, last>>
    /\ UNCHANGED aux

\* Every send succeeds: each bulb is queried, the guard is dropped.
OwnerRefreshSend ==
    /\ owner_pc = "refresh"
    /\ sent' = UNION {SeqRange(query_for_missing_info(bulbs[k], now)) : k \in DOMAIN bulbs}
    /\ refresh_result' = "ok"
    /\ owner_pc' = "returned"
    /\ mutex' = [mutex EXCEPT !.holder = NoneHeld]
    /\ UNCHANGED <<bulbs, worker_pc, pending, now, nrecv, seen, last>>
    /\ UNCHANGED aux

\* A send_to fails: query_for_missing_info returns the error and refresh's
\* unwrap panics while the guard is held.  The bulbs in done were queried
\* before bulb k, whose j-th send failed.
OwnerRefreshSendFails ==
    /\ owner_pc = "refresh"
    /\ \E k \in DOMAIN bulbs :
         \E done \in SUBSET (DOMAIN bulbs \ {k}) :
           LET q == query_for_missing_info(bulbs[k], now) IN
           \E j \in 1..Len(q) :
             sent' = UNION {SeqRange(query_for_missing_info(bulbs[d], now)) : d \in done}
                     \cup SeqRange(SubSeq(q, 1, j - 1))
    /\ refresh_result' = "panic"
    /\ owner_pc' = "returned"
    /\ mutex' = [holder |-> NoneHeld, poisoned |-> TRUE]
    /\ UNCHANGED <<bulbs, worker_pc, pending, now, nrecv, seen, last>>
    /\ UNCHANGED aux

\* The call is over: the owner goes on (after a panic, whoever caught it).
OwnerReturn ==
    /\ owner_pc = "returned"
    /\ owner_pc' = "idle"
    /\ sent' = {}
    /\ refresh_result' = "none"
    /\ UNCHANGED <<bulbs, mutex, worker_pc, pending, now, nrecv, seen, last>>
    /\ UNCHANGED aux

\* The owner locks the registry to read it.
OwnerInspectLock ==
    /\ owner_pc = "idle"
    /\ CanLock(mutex)
    /\ ~mutex.poisoned
    /\ owner_pc' = "inspect"
    /\ mutex' = [mutex EXCEPT !.holder = "owner"]
    /\ UNCHANGED <<bulbs, worker_pc, pending, sent, refresh_result, now, nrecv, seen, last>>
    /\ UNCHANGED aux

OwnerInspectDone ==
    /\ owner_pc = "inspect"
    /\ owner_pc' = "idle"
    /\ mutex' = [mutex EXCEPT !.holder = NoneHeld]
    /\ UNCHANGED <<bulbs, worker_pc, pending, sent, refresh_result, now, nrecv, seen, last>>
    /\ UNCHANGED aux

\* Time passes.
Tick ==
    /\ now < MaxNow
    /\ now' = now + 1
    /\ UNCHANGED <<bulbs, mutex, worker_pc, pending, owner_pc, sent, refresh_result,
                   nrecv, seen, last>>
    /\ UNCHANGED aux

Next ==
    \/ WorkerRecv
    \/ WorkerRecvError
    \/ WorkerLock
    \/ WorkerHandle
    \/ OwnerRefreshLock
    \/ OwnerRefreshSend
    \/ OwnerRefreshSendFails
    \/ OwnerReturn
    \/ OwnerInspectLock
    \/ OwnerInspectDone
    \/ Tick

Spec == Init /\ [][Next]_vars

(***************************************************************************)
(* manager.rs: Manager::discover, called by Manager::new before it returns *)
(* and by the owner afterwards.                                            *)
(***************************************************************************)
\* Every send succeeds: last_discovery is set and Ok(()) returned.
OwnerDiscover ==
    /\ owner_pc \in {"new", "idle"}
    /\ sent' = SeqRange(DiscoverDatagrams(SOURCE, ifaces))
    /\ last_discovery' = now
    /\ refresh_result' = "discovered"
    /\ owner_pc' = "returned"
    /\ UNCHANGED <<bulbs, mutex, worker_pc, pending, now, nrecv, seen, last, ifaces, probe>>

\* A discover that skips the interface whose send_to fails, sends to the
\* rest and returns the error at the end.
OwnerDiscoverSendFailsGoesOn ==
    /\ owner_pc \in {"new", "idle"}
    /\ LET q == DiscoverDatagrams(SOURCE, ifaces) IN
       \E j \in 1..Len(q) :
          sent' = SeqRange(SubSeq(q, 1, j - 1)) \cup SeqRange(SubSeq(q, j + 1, Len(q)))
    /\ last_discovery' = now
    /\ refresh_result' = "discover_err"
    /\ owner_pc' = IF owner_pc = "new" THEN "failed" ELSE "returned"
    /\ UNCHANGED <<bulbs, mutex, worker_pc, pending, now, nrecv, seen, last, ifaces, probe>>

\* The j-th send_to fails: the error is returned by `?`, the interfaces after
\* it are not reached and last_discovery is not set.  Manager::new returns
\* the error in place of a manager.
OwnerDiscoverSendFails ==
    /\ owner_pc \in {"new", "idle"}
    /\ LET q == DiscoverDatagrams(SOURCE, ifaces) IN
       \E j \in 1..Len(q) : sent' = SeqRange(SubSeq(q, 1, j - 1))
    /\ refresh_result' = "discover_err"
    /\ owner_pc' = IF owner_pc = "new" THEN "failed" ELSE "returned"
    /\ UNCHANGED <<bulbs, mutex, worker_pc, pending, now, nrecv, seen, last>>
    /\ UNCHANGED aux

\* get_if_addrs fails: its unwrap panics before anything is sent.
OwnerDiscoverIfAddrsFails ==
    /\ owner_pc \in {"new", "idle"}
    /\ sent' = {}
    /\ refresh_result' = "discover_panic"
    /\ owner_pc' = IF owner_pc = "new" THEN "failed" ELSE "returned"
    /\ UNCHANGED <<bulbs, mutex, worker_pc, pending, now, nrecv, seen, last>>
    /\ UNCHANGED aux

\* Manager::new has bound the socket and spawned the receive task and is
\* about to run its round of discovery, on a host with any interfaces.
InitDiscover ==
    /\ bulbs = <<>>
    /\ mutex = [holder |-> NoneHeld, poisoned |-> FALSE]
    /\ worker_pc = "recv"
    /\ pending = None
    /\ owner_pc = "new"
    /\ sent = {}
    /\ refresh_result = "none"
    /\ now = 0
    /\ nrecv = 0
    /\ seen = {}
    /\ last = Event("none", "none")
    /\ ifaces \in IfaceLists
    /\ last_discovery = 0
    /\ probe = None

NextDiscover ==
    \/ OwnerDiscover
    \/ OwnerDiscoverSendFails
    \/ OwnerDiscoverIfAddrsFails
    \/ OwnerReturn
    \/ Tick

SpecDiscover == InitDiscover /\ [][NextDiscover]_vars

\* What recv_from may return while discovery runs: the reply of a device.
DiscoverArrivals ==
    {Arrival(Device(T1, 3, PayStateService(ServiceUDP, LIFX_PORT)), Addr1)}

\* Discovery next to the receive task that Manager::new has spawned before
\* it: the task runs whatever becomes of new and of later calls.
WorkerRecvDiscover == WorkerRecvFrom(DiscoverArrivals)

NextDiscoverRecv ==
    \/ OwnerDiscover
    \/ OwnerDiscoverSendFails
    \/ OwnerDiscoverIfAddrsFails
    \/ OwnerReturn
    \/ Tick
    \/ WorkerRecvDiscover
    \/ WorkerLock
    \/ WorkerHandle

SpecDiscoverRecv == InitDiscover /\ [][NextDiscoverRecv]_vars

(***************************************************************************)
(* refreshable_data.rs: one RefreshableData record on its own, built by    *)
(* empty() at time 0, updated and read as the clock advances.              *)
(***************************************************************************)
\* The largest max_age of the record, the last clock value, and the values
\* and refresh requests it is built and updated with.
MaxAge == 2
MaxClock == 4
ProbeValues == {"v1", "v2"}
ProbeRequests == {[typ |-> "GetPower"], [typ |-> "LightGet"]}

InitRefreshable ==
    /\ bulbs = <<>>
    /\ mutex = [holder |-> NoneHeld, poisoned |-> FALSE]
    /\ worker_pc = "recv"
    /\ pending = None
    /\ owner_pc = "idle"
    /\ sent = {}
    /\ refresh_result = "none"
    /\ now = 0
    /\ nrecv = 0
    /\ seen = {}
    /\ last = Event("empty", "none")
    /\ ifaces = HostIfaces
    /\ last_discovery = 0
    /\ \E a \in 0..MaxAge : \E m \in ProbeRequests :
          probe = Some(RefreshableDataEmpty(a, m, 0))

\* update(v) on the record.
RefreshableUpdate ==
    /\ \E v \in ProbeValues :
          /\ probe' = Some(RefreshableDataUpdate(Unwrap(probe), v, now))
          /\ last' = Event("update", v)
    /\ UNCHANGED <<bulbs, mutex, worker_pc, pending, owner_pc, sent, refresh_result,
                   now, nrecv, seen, ifaces, last_discovery>>

\* A second passes.
ClockTick ==
    /\ now < MaxClock
    /\ now' = now + 1
    /\ UNCHANGED <<bulbs, mutex, worker_pc, pending, owner_pc, sent, refresh_result,
                   nrecv, seen, last>>
    /\ UNCHANGED aux

NextRefreshable ==
    \/ RefreshableUpdate
    \/ ClockTick

SpecRefreshable == InitRefreshable /\ [][NextRefreshable]_vars

(***************************************************************************)
(* The manager over a longer time: one device that answers, moves to a     *)
(* second address and whose cached values expire.                          *)
(***************************************************************************)
\* The last clock value of the long run.
MaxLateNow == 17

\* What recv_from may return in the long run.
LateArrivals ==
    {Arrival(Device(T1, 3, PayStateService(ServiceUDP, LIFX_PORT)), Addr1),
     Arrival(Device(T1, 3, PayStateService(ServiceUDP, LIFX_PORT)), Addr2),
     Arrival(Device(T1, 33, PayStateVersion(1, 1)), Addr1),
     Arrival(Device(T1, 33, PayStateVersion(1, 31)), Addr1),
     Arrival(Device(T1, 107, PayLightState(Red, PowerLevelEnabled, LabelA)), Addr1),
     Arrival(Device(T1, 503, PayStateZone(2, 0, Blue)), Addr1)}

WorkerRecvLate == WorkerRecvFrom(LateArrivals)

\* Time passes: the 15 s of the short TTLs, or a second more.
LateTick ==
    /\ \E dt \in {POWER_TTL, POWER_TTL + 1} :
          /\ now + dt <= MaxLateNow
          /\ now' = now + dt
    /\ UNCHANGED <<bulbs, mutex, worker_pc, pending, owner_pc, sent, refresh_result,
                   nrecv, seen, last>>
    /\ UNCHANGED aux

NextLate ==
    \/ WorkerRecvLate
    \/ WorkerLock
    \/ WorkerHandle
    \/ OwnerRefreshLock
    \/ OwnerRefreshSend
    \/ OwnerReturn
    \/ LateTick

SpecLate == Init /\ [][NextLate]_vars

(***************************************************************************)
(* bulb.rs: Bulb::set_color, called by the owner on a bulb of the registry *)
(* while it holds the registry's guard.  Each call spawns a thread that    *)
(* hands the datagram to the socket.  probe holds the calls made, the      *)
(* spawned threads that have not sent yet, and the datagrams handed to the *)
(* socket, in order.                                                       *)
(***************************************************************************)
\* The most calls of set_color in a run.
MaxCalls == 2

\* A Duration by its whole milliseconds, hi * 2^32 + lo with lo < 2^32.
Millis(hi, lo) == [hi |-> hi, lo |-> lo]

\* duration.as_millis() as u32: the cast keeps the low 32 bits.
as_millis_as_u32(duration) == duration.lo

\* The datagram set_color builds and the address its thread sends it to.
set_color(bulb, color, duration) ==
    [to |-> bulb.addr,
     raw |-> RawMessageBuild([BuildOptionsDefault EXCEPT
                                 !.target = Some(bulb.target),
                                 !.res_required = TRUE,
                                 !.source = bulb.source],
                             [typ |-> "LightSetColor",
                              color |-> color,
                              duration |-> as_millis_as_u32(duration),
                              reserved |-> 0])]

\* The durations of the calls: 5 s, 2^31 - 1 ms, and 2^32 + 5000 ms.
SetColorDurations == {Millis(0, 5000), Millis(0, 2147483647), Millis(1, 5000)}

\* What recv_from may return: one device, seen at two addresses.
SetColorArrivals ==
    {Arrival(Device(T1, 3, PayStateService(ServiceUDP, LIFX_PORT)), Addr1),
     Arrival(Device(T1, 3, PayStateService(ServiceUDP, LIFX_PORT)), Addr2)}

SetColorState(calls, threads, wire) == [calls |-> calls, threads |-> threads, wire |-> wire]

InitSetColor ==
    /\ bulbs = <<>>
    /\ mutex = [holder |-> NoneHeld, poisoned |-> FALSE]
    /\ worker_pc = "recv"
    /\ pending = None
    /\ owner_pc = "idle"
    /\ sent = {}
    /\ refresh_result = "none"
    /\ now = 0
    /\ nrecv = 0
    /\ seen = {}
    /\ last = Event("none", "none")
    /\ ifaces = HostIfaces
    /\ last_discovery = 0
    /\ probe = Some(SetColorState(<<>>, {}, <<>>))

WorkerRecvSetColor == WorkerRecvFrom(SetColorArrivals)

\* set_color returns Ok(()): the message is built and packed, the socket
\* cloned, the address read, and a thread spawned to send.
OwnerSetColor ==
    /\ owner_pc = "inspect"
    /\ Len(Unwrap(probe).calls) < MaxCalls
    /\ \E k \in DOMAIN bulbs : \E color \in {Red, Blue} : \E duration \in SetColorDurations :
          LET st == Unwrap(probe)
              n == Len(st.calls) + 1
              call == [target |-> k, color |-> color, duration |-> duration,
                       addr |-> bulbs[k].addr, res |-> "Ok"]
          IN probe' = Some(SetColorState(
                          Append(st.calls, call),
                          st.threads \cup {[call |-> n, dg |-> set_color(bulbs[k], color, duration)]},
                          st.wire))
    /\ UNCHANGED <<bulbs, mutex, worker_pc, pending, owner_pc, sent, refresh_result,
                   now, nrecv, seen, last, ifaces, last_discovery>>

\* self.sock.try_clone() fails: set_color returns the error and spawns no
\* thread.
OwnerSetColorCloneFails ==
    /\ owner_pc = "inspect"
    /\ Len(Unwrap(probe).calls) < MaxCalls
    /\ \E k \in DOMAIN bulbs : \E color \in {Red, Blue} : \E duration \in SetColorDurations :
          LET st == Unwrap(probe)
              call == [target |-> k, color |-> color, duration |-> duration,
                       addr |-> bulbs[k].addr, res |-> "Err"]
          IN probe' = Some(SetColorState(Append(st.calls, call), st.threads, st.wire))
    /\ UNCHANGED <<bulbs, mutex, worker_pc, pending, owner_pc, sent, refresh_result,
                   now, nrecv, seen, last, ifaces, last_discovery>>

\* A spawned thread runs: sock.send_to(&message, addr) hands its datagram
\* to the socket.
SenderSend ==
    /\ \E th \in Unwrap(probe).threads :
          LET st == Unwrap(probe)
          IN probe' = Some(SetColorState(st.calls, st.threads \ {th}, Append(st.wire, th)))
    /\ UNCHANGED <<bulbs, mutex, worker_pc, pending, owner_pc, sent, refresh_result,
                   now, nrecv, seen, last, ifaces, last_discovery>>

\* A spawned thread's send_to fails: its unwrap panics in that thread, and
\* nothing is sent.
SenderSendFails ==
    /\ \E th \in Unwrap(probe).threads :
          LET st == Unwrap(probe)
          IN probe' = Some(SetColorState(st.calls, st.threads \ {th}, st.wire))
    /\ UNCHANGED <<bulbs, mutex, worker_pc, pending, owner_pc, sent, refresh_result,
                   now, nrecv, seen, last, ifaces, last_discovery>>

NextSetColor ==
    \/ WorkerRecvSetColor
    \/ WorkerLock
    \/ WorkerHandle
    \/ OwnerInspectLock
    \/ OwnerSetColor
    \/ OwnerSetColorCloneFails
    \/ OwnerInspectDone
    \/ SenderSend
    \/ SenderSendFails

SpecSetColor == InitSetColor /\ [][NextSetColor]_vars

(***************************************************************************)
(* msg.rs: RawMessage::build and pack on their own, for messages of every  *)
(* variant that has a payload and some that have none.                     *)
(***************************************************************************)
Ident == [i \in 1..16 |-> i]
Echo == [i \in 1..64 |-> i]

\* The message of lib.rs's test_build_a_packet.
TestPacketMessage ==
    [typ |-> "LightSetColor", reserved |-> 0,
     color |-> [hue |-> 21845, saturation |-> 65535, brightness |-> 65535, kelvin |-> 3500],
     duration |-> 1024]

\* Labels with a character above 127, of two and of three bytes of UTF-8,
\* and a label of 32 characters with one.
LabelAccent == <<233>>
LabelEuro == <<76, 8364>>
LabelLong == [i \in 1..32 |-> IF i = 2 THEN 233 ELSE 97]

BuildMessages ==
    {[typ |-> "GetService"], [typ |-> "GetPower"], [typ |-> "LightGet"],
     [typ |-> "GetColorZones", start_index |-> 0, end_index |-> 255],
     [typ |-> "SetColorZones", start_index |-> 1, end_index |-> 2, color |-> Red,
      duration |-> 1000, apply |-> "Apply"],
     [typ |-> "SetWaveform", reserved |-> 0, transient |-> TRUE, color |-> Blue,
      period |-> 500, cycles |-> 1065353216, skew_ratio |-> -1, waveform |-> "Sine"],
     [typ |-> "SetWaveformOptional", reserved |-> 0, transient |-> FALSE, color |-> Blue,
      period |-> 500, cycles |-> 1065353216, skew_ratio |-> 100, waveform |-> "Pulse",
      set_hue |-> TRUE, set_saturation |-> FALSE, set_brightness |-> TRUE,
      set_kelvin |-> FALSE],
     [typ |-> "StateZone", count |-> 2, index |-> 1, color |-> Red],
     [typ |-> "StateMultiZone", count |-> 8, index |-> 0,
      color0 |-> Red, color1 |-> Blue, color2 |-> Red, color3 |-> Blue,
      color4 |-> Red, color5 |-> Blue, color6 |-> Red, color7 |-> Blue],
     [typ |-> "LightSetInfrared", brightness |-> 65535],
     [typ |-> "SetLocation", location |-> Ident, label |-> LabelA, updated_at |-> 1],
     [typ |-> "StateGroup", group |-> Ident, label |-> <<>>, updated_at |-> 2],
     [typ |-> "StateService", port |-> LIFX_PORT, service |-> "UDP"],
     [typ |-> "StateHostInfo", signal |-> 0, tx |-> 1, rx |-> 2, reserved |-> 0],
     [typ |-> "StateWifiFirmware", build |-> 1, reserved |-> 0, version |-> 65538],
     [typ |-> "SetPower", level |-> "Enabled"],
     [typ |-> "StatePower", level |-> "Standby"],
     [typ |-> "SetLabel", label |-> LabelA],
     [typ |-> "StateLabel", label |-> LabelAccent],
     [typ |-> "StateLabel", label |-> LabelEuro],
     [typ |-> "StateLabel", label |-> LabelLong],
     [typ |-> "StateVersion", vendor |-> 1, product |-> 31, version |-> 0],
     [typ |-> "StateInfo", time |-> 1, uptime |-> 2, downtime |-> 3],
     [typ |-> "EchoRequest", payload |-> Echo],
     TestPacketMessage,
     [typ |-> "LightState", color |-> Red, reserved |-> 0, power |-> "Enabled",
      label |-> LabelA, reserved2 |-> 0],
     [typ |-> "LightSetPower", level |-> 1, duration |-> 0],
     [typ |-> "LightStatePower", level |-> 65535]}

BuildOptionsSet ==
    {[target |-> t, ack_required |-> a, res_required |-> r, sequence |-> q, source |-> c] :
        t \in {None, Some(0), Some(T1)}, a \in BOOLEAN, r \in BOOLEAN, q \in {0, 255},
        c \in {0, SOURCE}}

\* Nothing has been built yet.
InitBuild ==
    /\ bulbs = <<>>
    /\ mutex = [holder |-> NoneHeld, poisoned |-> FALSE]
    /\ worker_pc = "recv"
    /\ pending = None
    /\ owner_pc = "idle"
    /\ sent = {}
    /\ refresh_result = "none"
    /\ now = 0
    /\ nrecv = 0
    /\ seen = {}
    /\ last = Event("none", "none")
    /\ ifaces = HostIfaces
    /\ last_discovery = 0
    /\ probe = None

\* RawMessage::build(&options, m) and pack() of its result.
BuildAndPack ==
    /\ probe = None
    /\ \E options \in BuildOptionsSet : \E m \in BuildMessages :
          LET built == ~BuildPanics(m, BuildLayout(m.typ))
              raw == IF built THEN RawMessageBuild(options, m) ELSE Panic
          IN probe' = Some([options |-> options, msg |-> m, raw |-> raw,
                            bytes |-> IF built THEN RawMessagePack(raw) ELSE <<>>])
    /\ UNCHANGED <<bulbs, mutex, worker_pc, pending, owner_pc, sent, refresh_result,
                   now, nrecv, seen, last, ifaces, last_discovery>>

NextBuild == BuildAndPack

SpecBuild == InitBuild /\ [][NextBuild]_vars

(***************************************************************************)
(* Decoding: Message::from_raw applied to datagrams of every type code of  *)
(* the Message enum and of some others, with payloads that are complete,   *)
(* cut short, or hold a value outside an enum.                             *)
(***************************************************************************)
\* The variants of the Message enum.
MessageNames ==
    {"GetService", "StateService", "GetHostInfo", "StateHostInfo", "GetHostFirmware",
     "StateHostFirmware", "GetWifiInfo", "StateWifiInfo", "GetWifiFirmware",
     "StateWifiFirmware", "GetPower", "SetPower", "StatePower", "GetLabel", "SetLabel",
     "StateLabel", "GetVersion", "StateVersion", "GetInfo", "StateInfo",
     "Acknowledgement", "GetLocation", "SetLocation", "StateLocation", "GetGroup",
     "SetGroup", "StateGroup", "EchoRequest", "EchoResponse", "LightGet",
     "LightSetColor", "SetWaveform", "LightState", "LightGetPower", "LightSetPower",
     "LightStatePower", "SetWaveformOptional", "LightGetInfrared", "LightStateInfrared",
     "LightSetInfrared", "SetColorZones", "GetColorZones", "StateZone", "StateMultiZone"}

\* Type codes that no variant of Message has.
OtherTypes ==
    {0, 1, 4, 11, 26, 31, 36, 44, 46, 47, 54, 57, 60, 100, 104, 106, 108, 115, 123,
     500, 504, 505, 507, 65535}

\* The enum a field of a variant is declared with, or "none".
EnumOf(variant, field) ==
    CASE variant = "StateService" /\ field = "service" -> "Service"
      [] variant \in {"SetPower", "StatePower"} /\ field = "level" -> "PowerLevel"
      [] variant = "LightState" /\ field = "power" -> "PowerLevel"
      [] variant \in {"SetWaveform", "SetWaveformOptional"} /\ field = "waveform"
            -> "Waveform"
      [] variant = "SetColorZones" /\ field = "apply" -> "ApplicationRequest"
      [] OTHER -> "none"

\* A value of each enum, and values outside it.
EnumSample(e) ==
    CASE e = "Service" -> ServiceUDP
      [] e = "PowerLevel" -> PowerLevelEnabled
      [] e = "ApplicationRequest" -> 2
      [] e = "Waveform" -> 4

EnumOutside(e) ==
    CASE e = "Service" -> {0, 2, 255}
      [] e = "PowerLevel" -> {1, 32768, 65534}
      [] e = "ApplicationRequest" -> {3, 255}
      [] e = "Waveform" -> {5, 7, 255}

\* The bytes of a field of the given width that holds x < 65536,
\* little-endian.
FieldBytes(width, x) ==
    [k \in 1..width |-> IF k = 1 THEN x % 256 ELSE IF k = 2 THEN x \div 256 ELSE 0]

\* A payload in the layout L of a variant: field i holds the number i, an
\* enum field holds the value given for it.
RECURSIVE FillLayout(_, _, _, _)
FillLayout(variant, L, i, enumval) ==
    IF i > Len(L) THEN <<>>
    ELSE FieldBytes(Width(L[i][2]),
                    IF EnumOf(variant, L[i][1]) = "none" THEN i ELSE enumval)
         \o FillLayout(variant, L, i + 1, enumval)

\* The layout of a variant's payload on the wire: the one from_raw reads,
\* or for a variant from_raw has no arm for, the one build writes.
WireLayout(name) ==
    IF FromRawVariant(get_num(name)) # "none" THEN FromRawLayout(get_num(name))
    ELSE [i \in 1..Len(BuildLayout(name)) |->
            <<BuildLayout(name)[i][1],
              CASE BuildLayout(name)[i][2] \in {"bool", "Waveform"} -> "u8"
                [] BuildLayout(name)[i][2] = "PowerLevel" -> "u16"
                [] OTHER -> BuildLayout(name)[i][2]>>]

\* The enum a variant's payload holds, or "none".
EnumIn(name) ==
    LET L == WireLayout(name)
        es == {EnumOf(name, L[i][1]) : i \in 1..Len(L)} \ {"none"}
    IN IF es = {} THEN "none" ELSE CHOOSE e \in es : TRUE

WellFormedPayload(name) ==
    FillLayout(name, WireLayout(name), 1,
               IF EnumIn(name) = "none" THEN 0 ELSE EnumSample(EnumIn(name)))

DecodeInput(typ, payload, kind) == [typ |-> typ, payload |-> payload, kind |-> kind]

\* The datagrams decoded: one per variant with a complete payload, the same
\* without its last byte or without any payload, one per value outside the
\* enum of a variant that holds one, and the type codes of no variant.
DecodeInputs ==
    {DecodeInput(get_num(n), WellFormedPayload(n), "wellformed") : n \in MessageNames}
    \cup {DecodeInput(get_num(n),
                      SubSeq(WellFormedPayload(n), 1, Len(WellFormedPayload(n)) - 1),
                      "truncated") : n \in {x \in MessageNames : WireLayout(x) # <<>>}}
    \cup {DecodeInput(get_num(n), <<>>, "truncated") :
             n \in {x \in MessageNames : WireLayout(x) # <<>>}}
    \cup UNION {{DecodeInput(get_num(n), FillLayout(n, WireLayout(n), 1, x), "enum") :
                    x \in EnumOutside(EnumIn(n))} :
                n \in {x \in MessageNames : EnumIn(x) # "none"}}
    \cup {DecodeInput(t, p, "other") : t \in OtherTypes, p \in {<<>>, Zeros(4)}}

\* What from_raw makes of a datagram: unpack's failure, or
\* from_raw's result for the raw message unpack returns.
DecodeBytes(v) ==
    LET u == RawMessageUnpack(v)
    IN IF u.tag # "Ok" THEN u ELSE from_raw(Unwrap(u.val))

\* Nothing has been decoded yet.
InitDecode == InitBuild

\* RawMessage::unpack of a datagram and Message::from_raw of its result.
Decode ==
    /\ probe = None
    /\ \E d \in DecodeInputs :
          probe' = Some([input |-> d,
                         result |-> DecodeBytes(Device(T1, d.typ, d.payload))])
    /\ UNCHANGED <<bulbs, mutex, worker_pc, pending, owner_pc, sent, refresh_result,
                   now, nrecv, seen, last, ifaces, last_discovery>>

NextDecode == Decode

SpecDecode == InitDecode /\ [][NextDecode]_vars

(***************************************************************************)
(* manager.rs: the receive task alone, with a device that sends a message  *)
(* of every type from_raw decodes.                                         *)
(***************************************************************************)
\* The variants from_raw has an arm for.
DecodedNames == {n \in MessageNames : FromRawVariant(get_num(n)) # "none"}

\* One datagram per decoded variant, the StateVersion of a single-colour and
\* of a multizone product, a LightState, a second label, and a StateService
\* that names another port.
HandleArrivals ==
    {Arrival(Device(T1, get_num(n), WellFormedPayload(n)), Addr1) : n \in DecodedNames}
    \cup {Arrival(Device(T1, 33, PayStateVersion(1, 1)), Addr1),
          Arrival(Device(T1, 33, PayStateVersion(1, 31)), Addr1),
          Arrival(Device(T1, 107, PayLightState(Red, PowerLevelStandby, LabelA)), Addr1),
          Arrival(Device(T1, 25, PayStateLabel(LabelA)), Addr1),
          Arrival(Device(T1, 3, PayStateService(ServiceUDP, 1234)), Addr1)}

WorkerRecvHandle == WorkerRecvFrom(HandleArrivals)

NextHandle ==
    \/ WorkerRecvHandle
    \/ WorkerLock
    \/ WorkerHandle
    \/ Tick

SpecHandle == Init /\ [][NextHandle]_vars

(***************************************************************************)
(* The manager with one device on the network, in the long run: the owner  *)
(* calls refresh() again and again, whatever is on its way; the device     *)
(* answers every request with the State message of the protocol, and the   *)
(* receive task takes every datagram that is delivered.  probe holds the   *)
(* device's product and, by the name of the request, which requests are on *)
(* their way to the device and which answers are in the receive buffer of  *)
(* the manager's socket: one or more datagrams of each kind named.  The    *)
(* answers arrive in any order, and all of it happens within the shortest  *)
(* TTL: the clock stands.  The run starts when the device has been         *)
(* discovered, the first refresh() has queried it and the answers of the   *)
(* kinds in Learned have been handled; the label, the version and the      *)
(* power level, and after the version the colour, are learned in the run.  *)
(***************************************************************************)
\* The products of the device: an A19 bulb, a multizone strip, and one that
\* is not in the product table.
DeviceProducts == {1, 31, 99}

Network(product, requests, inbox) ==
    [product |-> product, requests |-> requests, inbox |-> inbox]

\* The device's answer to a request, as the protocol pairs them.
DeviceAnswerTo(msg, product) ==
    CASE msg.typ = "GetService" -> Device(T1, 3, PayStateService(ServiceUDP, LIFX_PORT))
      [] msg.typ = "GetLabel" -> Device(T1, 25, PayStateLabel(LabelA))
      [] msg.typ = "GetGroup" -> Device(T1, 53, WellFormedPayload("StateGroup"))
      [] msg.typ = "GetLocation" -> Device(T1, 50, WellFormedPayload("StateLocation"))
      [] msg.typ = "GetVersion" -> Device(T1, 33, PayStateVersion(1, product))
      [] msg.typ = "GetHostFirmware" ->
             Device(T1, 15, WellFormedPayload("StateHostFirmware"))
      [] msg.typ = "GetWifiFirmware" ->
             Device(T1, 19, WellFormedPayload("StateWifiFirmware"))
      [] msg.typ = "GetPower" -> Device(T1, 22, PayStatePower(PowerLevelEnabled))
      [] msg.typ = "LightGet" ->
             Device(T1, 107, PayLightState(Red, PowerLevelEnabled, LabelA))
      [] msg.typ = "GetColorZones" -> Device(T1, 506, PayStateMultiZone(8, 0))

\* The requests the manager sends, by the name of their message.
RequestTypes ==
    {"GetService", "GetLabel", "GetGroup", "GetLocation", "GetVersion", "GetHostFirmware",
     "GetWifiFirmware", "GetPower", "LightGet", "GetColorZones"}

\* The datagram each kind of device answers to each request, from its address.
DeviceReplies ==
    [product \in DeviceProducts |->
        [typ \in RequestTypes |-> Arrival(DeviceAnswerTo([typ |-> typ], product), Addr1)]]

\* What RawMessage::unpack makes of each answer in the receive task's buffer.
DeviceUnpacked ==
    [product \in DeviceProducts |->
        [typ \in RequestTypes |->
            IF Len(DeviceReplies[product][typ].bytes) = 0 THEN Err("zero")
            ELSE RawMessageUnpack(Received(DeviceReplies[product][typ].bytes))]]

\* The answers the receive task has handled when the run starts, after the
\* StateService that registered the bulb, and the kinds still in play.
Learned == {"GetGroup", "GetLocation", "GetHostFirmware", "GetWifiFirmware"}
LiveKinds == RequestTypes \ (Learned \cup {"GetService"})

\* The bulb of the registry after the device's answer to the discovery
\* broadcast: the entry is inserted, and handle_message takes the StateService.
Discovered(product) ==
    handle_message(Unwrap(DeviceUnpacked[product]["GetService"].val),
                   BulbNew(SOURCE, T1, Addr1, 0), 0, FALSE).bulb

\* The bulb after the receive task has handled the device's answers of the
\* kinds named: the entry is updated and handle_message takes the answer.
RECURSIVE BulbAfter(_, _, _)
BulbAfter(bulb, product, kinds) ==
    IF kinds = {} THEN bulb
    ELSE LET typ == CHOOSE k \in kinds : TRUE
             raw == Unwrap(DeviceUnpacked[product][typ].val)
         IN BulbAfter(handle_message(raw, BulbUpdate(bulb, Addr1, 0), 0, FALSE).bulb,
                      product, kinds \ {typ})

\* The kinds of the requests refresh() sends for a bulb.
QueriedKinds(bulb, t) ==
    LET q == query_for_missing_info(bulb, t)
    IN {Unwrap(from_raw(q[i].raw).val).typ : i \in 1..Len(q)}

\* Manager::new has returned and the device has answered its broadcast; the
\* owner's first refresh() has queried the bulb; the answers of the kinds in
\* Learned have been handled, the other requests are on their way.  Both
\* threads are between two steps: the receive task in recv_from, the owner
\* before its next call.
InitLive ==
    /\ mutex = [holder |-> NoneHeld, poisoned |-> FALSE]
    /\ worker_pc = "recv"
    /\ pending = None
    /\ owner_pc = "idle"
    /\ sent = {}
    /\ refresh_result = "none"
    /\ now = 0
    /\ nrecv = 0
    /\ seen = {T1}
    /\ last = Event("handled", "Ok")
    /\ ifaces = HostIfaces
    /\ last_discovery = 0
    /\ \E product \in DeviceProducts :
          /\ bulbs = [k \in {T1} |-> BulbAfter(Discovered(product), product, Learned)]
          /\ probe = Some(Network(product,
                                  QueriedKinds(Discovered(product), 0) \ Learned, {}))

\* The device answers a request of the kind typ, whichever kind that is;
\* more requests of the kind may be on their way.
DeviceAnswers(typ, more) ==
    /\ typ \in Unwrap(probe).requests
    /\ probe' = Some([Unwrap(probe) EXCEPT
                        !.requests = IF more THEN @ ELSE @ \ {typ},
                        !.inbox = @ \cup {typ}])
    /\ UNCHANGED <<bulbs, mutex, worker_pc, pending, owner_pc, sent, refresh_result,
                   now, nrecv, seen, last, ifaces, last_discovery>>

DeviceAnswer == \E typ \in RequestTypes : \E more \in BOOLEAN : DeviceAnswers(typ, more)

\* recv_from returns the datagram of the receive buffer that arrived first:
\* one of any kind that is there, which may leave more of its kind; it is
\* unpacked outside the lock.
WorkerRecvLive ==
    /\ worker_pc = "recv"
    /\ \E typ \in Unwrap(probe).inbox :
       LET a == DeviceReplies[Unwrap(probe).product][typ]
           u == DeviceUnpacked[Unwrap(probe).product][typ]
       IN
         /\ \E more \in BOOLEAN :
               probe' = Some([Unwrap(probe) EXCEPT
                                !.inbox = IF more THEN @ ELSE @ \ {typ}])
         /\ IF u.tag = "Panic"
            THEN /\ worker_pc' = "dead"
                 /\ last' = Event("unpack_panic", "none")
                 /\ UNCHANGED <<pending, seen>>
            ELSE IF u.tag = "Err"
            THEN /\ worker_pc' = "recv"
                 /\ last' = Event(IF u.err = "zero" THEN "zero" ELSE "unpack_err", u.err)
                 /\ UNCHANGED <<pending, seen>>
            ELSE IF Unwrap(u.val).frame_addr.target = 0
            THEN /\ worker_pc' = "recv"
                 /\ last' = Event("target0", "none")
                 /\ UNCHANGED <<pending, seen>>
            ELSE /\ worker_pc' = "lock"
                 /\ pending' = Some([raw |-> Unwrap(u.val), addr |-> a.addr])
                 /\ seen' = seen \cup {Unwrap(u.val).frame_addr.target}
                 /\ last' = Event("unpacked", "none")
    /\ UNCHANGED <<bulbs, mutex, owner_pc, sent, refresh_result, now, nrecv,
                   ifaces, last_discovery>>

\* The owner's next call of refresh(): it waits for the mutex and for
\* nothing else.
OwnerRefreshLockLive == OwnerRefreshLock

\* Every send succeeds: each bulb is queried, the guard is dropped, and the
\* datagrams are on their way to the device.
OwnerRefreshSendLive ==
    /\ owner_pc = "refresh"
    /\ sent' = UNION {SeqRange(query_for_missing_info(bulbs[k], now)) : k \in DOMAIN bulbs}
    /\ refresh_result' = "ok"
    /\ owner_pc' = "returned"
    /\ mutex' = [mutex EXCEPT !.holder = NoneHeld]
    /\ LET q == IF T1 \in DOMAIN bulbs THEN query_for_missing_info(bulbs[T1], now) ELSE <<>>
       IN probe' = Some([Unwrap(probe) EXCEPT
                           !.requests = @ \cup {Unwrap(from_raw(q[i].raw).val).typ :
                                                   i \in 1..Len(q)}])
    /\ UNCHANGED <<bulbs, worker_pc, pending, now, nrecv, seen, last, ifaces, last_discovery>>

NextLive ==
    \/ DeviceAnswer
    \/ WorkerRecvLive
    \/ WorkerLock
    \/ WorkerHandle
    \/ OwnerRefreshLockLive
    \/ OwnerRefreshSendLive
    \/ OwnerReturn

\* The receive task takes the last datagram of the kind typ.
WorkerTakesLast(typ) ==
    /\ worker_pc = "recv"
    /\ typ \in Unwrap(probe).inbox
    /\ worker_pc' = "lock"
    /\ probe' = Some([Unwrap(probe) EXCEPT !.inbox = @ \ {typ}])

\* A step of the receive task after recv_from, by its position: it gets the
\* mutex when it is free, and ends handle_message.
WorkerRuns ==
    \/ worker_pc = "lock" /\ CanLock(mutex) /\ worker_pc' \in {"handle", "recv", "dead"}
    \/ worker_pc = "handle" /\ worker_pc' \in {"recv", "dead"}

\* A step of the owner, by its position: the next call of refresh() when
\* the mutex is free, the sends, the return.
OwnerRuns ==
    \/ /\ owner_pc = "idle"
       /\ CanLock(mutex)
       /\ owner_pc' \in {"refresh", "returned"}
    \/ owner_pc = "refresh" /\ owner_pc' = "returned"
    \/ owner_pc = "returned" /\ owner_pc' = "idle"

\* The owner goes on calling refresh(), the device answers every request of
\* every kind, the last of the kind too, the receive task takes every
\* datagram delivered, of every kind, and runs on: no thread that can take a
\* step again and again waits for ever, so neither thread keeps the other
\* from the mutex.  The kinds are those in play: the attributes learned
\* before the run are within their TTL, and no request for them is sent.
FairLive ==
    /\ \A typ \in LiveKinds : WF_vars(DeviceAnswers(typ, FALSE))
    /\ \A typ \in LiveKinds : SF_<<worker_pc, probe>>(WorkerTakesLast(typ))
    /\ SF_worker_pc(WorkerRuns)
    /\ SF_owner_pc(OwnerRuns)

SpecLive == InitLive /\ [][NextLive]_vars /\ FairLive

(***************************************************************************)
(* The three headers alone: pack and unpack of Frame, FrameAddress and     *)
(* ProtocolHeader values, and unpack of the byte vectors of lib.rs's tests. *)
(***************************************************************************)
\* Frames that pass Frame::validate.
Frames ==
    {[size |-> z, origin |-> o, tagged |-> t, addressable |-> TRUE,
      protocol |-> LIFX_PROTOCOL, source |-> c] :
        z \in {0, 36, 40, 4386, 65535}, o \in 0..3, t \in BOOLEAN,
        c \in {0, 1234567, SOURCE, 2147483647}}

\* The frame of lib.rs's test_frame.
TestFrame ==
    [size |-> 4386, origin |-> 0, tagged |-> TRUE, addressable |-> TRUE,
     protocol |-> LIFX_PROTOCOL, source |-> 1234567]

\* The vectors of test_decode_frame and test_decode_frame1, the first eight
\* bytes of test_build_a_packet, and a frame of another protocol.
TestDecodeFrame == <<40, 0, 0, 84, 66, 82, 75, 82>>
TestDecodeFrame1 == <<36, 0, 0, 20, 202, 65, 55, 5>>
FrameVectors ==
    {TestDecodeFrame, TestDecodeFrame1, <<49, 0, 0, 52, 0, 0, 0, 0>>,
     <<36, 0, 1, 20, 0, 0, 0, 0>>}

\* FrameAddress values; validate accepts every one.
FrameAddresses ==
    {[target |-> g, reserved |-> rs, reserved2 |-> r2, ack_required |-> a,
      res_required |-> r, sequence |-> q] :
        g \in {0, T1, 287458440}, rs \in {Zeros(6), <<1, 2, 3, 4, 5, 255>>},
        r2 \in {0, 1, 63, 64, 255}, a \in BOOLEAN, r \in BOOLEAN, q \in {0, 248, 255}}

\* ProtocolHeader values; validate accepts every one.
ProtocolHeaders ==
    {[reserved |-> rs, typ |-> t, reserved2 |-> r2] :
        rs \in {0, 1, 2147483647}, t \in {0, 2, 17493, 65535}, r2 \in {0, 1, 65535}}

HeaderProbe(kind, value, bytes, back) ==
    [kind |-> kind, value |-> value, bytes |-> bytes, back |-> back]

InitHeaders == InitBuild

\* f.pack() and Frame::unpack of its bytes.
PackFrame ==
    /\ probe = None
    /\ \E f \in Frames :
          probe' = Some(HeaderProbe("Frame", f, FramePack(f), FrameUnpack(FramePack(f))))
    /\ UNCHANGED <<bulbs, mutex, worker_pc, pending, owner_pc, sent, refresh_result,
                   now, nrecv, seen, last, ifaces, last_discovery>>

\* Byte vectors of 8 and of 36 bytes with every value of the origin, tagged
\* and addressable bits, and protocol numbers around 1024.
FrameByteVectors ==
    {LE16(z) \o LE16(o * 16384 + t * 8192 + a * 4096 + p) \o LE32(c) \o tail :
        z \in {0, 36}, o \in 0..3, t \in 0..1, a \in 0..1,
        p \in {0, 1023, 1024, 1025, 4095}, c \in {0, SOURCE},
        tail \in {<<>>, Zeros(28)}}

\* Frame::unpack of a byte vector.
UnpackFrame ==
    /\ probe = None
    /\ \E v \in FrameVectors \cup FrameByteVectors :
          probe' = Some(HeaderProbe("FrameBytes", v, v, FrameUnpack(v)))
    /\ UNCHANGED <<bulbs, mutex, worker_pc, pending, owner_pc, sent, refresh_result,
                   now, nrecv, seen, last, ifaces, last_discovery>>

\* a.pack() and FrameAddress::unpack of its bytes.
PackFrameAddress ==
    /\ probe = None
    /\ \E a \in FrameAddresses :
          probe' = Some(HeaderProbe("FrameAddress", a, FrameAddressPack(a),
                                    FrameAddressUnpack(FrameAddressPack(a))))
    /\ UNCHANGED <<bulbs, mutex, worker_pc, pending, owner_pc, sent, refresh_result,
                   now, nrecv, seen, last, ifaces, last_discovery>>

\* h.pack() and ProtocolHeader::unpack of its bytes.
PackProtocolHeader ==
    /\ probe = None
    /\ \E h \in ProtocolHeaders :
          probe' = Some(HeaderProbe("ProtocolHeader", h, ProtocolHeaderPack(h),
                                    ProtocolHeaderUnpack(ProtocolHeaderPack(h))))
    /\ UNCHANGED <<bulbs, mutex, worker_pc, pending, owner_pc, sent, refresh_result,
                   now, nrecv, seen, last, ifaces, last_discovery>>

NextHeaders == PackFrame \/ UnpackFrame \/ PackFrameAddress \/ PackProtocolHeader

SpecHeaders == InitHeaders /\ [][NextHeaders]_vars

(***************************************************************************)
(* The claims.                                                             *)
(***************************************************************************)
\* The step of the receive task that runs handle_message, the message it
\* decodes and the bulb it is dispatched to.
HandleStep == worker_pc = "handle" /\ worker_pc' # "handle"
PendingRaw == Unwrap(pending).raw
PendingTarget == PendingRaw.frame_addr.target
PendingDecodes == from_raw(PendingRaw).tag = "Ok"
PendingMsg == Unwrap(from_raw(PendingRaw).val)

\* The refreshable attributes and the colour mode of a bulb.
Attributes(bulb) ==
    <<bulb.model, bulb.location, bulb.group, bulb.name, bulb.host_firmware,
      bulb.wifi_firmware, bulb.power_level, bulb.color>>

\* The zone vector of a bulb in Multi mode, if any.
Zones(bulb) == Unwrap(bulb.color.d).data

\* The receive task has finished with every datagram it has read.
WorkerSettled == worker_pc \in {"recv", "handle", "dead"}

\* C1: after any sequence of received datagrams, the keys of the registry are
\* exactly the non-zero targets of the datagrams that unpacked.
C1_RegistryKeysAreUnpackedTargets ==
    /\ DOMAIN bulbs \subseteq seen
    /\ 0 \notin DOMAIN bulbs
    /\ WorkerSettled => seen \subseteq DOMAIN bulbs

\* C2: the registry holds exactly one bulb record for each non-zero target
\* whose datagram the receive task has processed.
C2_ExactlyOneRecordPerTarget ==
    WorkerSettled =>
        \A t \in seen : Cardinality({k \in DOMAIN bulbs : bulbs[k].target = t}) = 1

\* C3: a datagram that fails to unpack leaves the registry unchanged and the
\* receive task reading the next datagram.
C3_UnpackFailureIsIgnored ==
    [][(nrecv' # nrecv /\ last'.ev \in {"unpack_err", "unpack_panic"})
          => (bulbs' = bulbs /\ worker_pc' = "recv")]_vars

\* C4: when from_raw fails for a packet with a non-zero target, no attribute
\* and no colour mode of any bulb changes (a bulb the packet inserts has the
\* attributes of a new bulb), the lock is released unpoisoned and the receive
\* task reads the next datagram.
C4_FromRawErrorDropsPacket ==
    [][(/\ worker_pc \in {"lock", "handle"}
        /\ worker_pc' # worker_pc
        /\ ~PendingDecodes)
          => /\ \A k \in DOMAIN bulbs : Attributes(bulbs'[k]) = Attributes(bulbs[k])
             /\ \A k \in DOMAIN bulbs' \ DOMAIN bulbs :
                    Attributes(bulbs'[k]) = Attributes(BulbNew(SOURCE, k, Addr1, now))
             /\ worker_pc = "handle" =>
                    /\ worker_pc' = "recv"
                    /\ mutex' = [holder |-> NoneHeld, poisoned |-> FALSE]]_vars

\* C4's case: a packet whose payload from_raw rejected has been dispatched.
C4_Witness ==
    /\ last = Event("handled", "Err")
    /\ worker_pc = "recv"
    /\ DOMAIN bulbs # {}

\* C5: once a bulb's colour mode is Single or Multi, no message changes the
\* mode or discards the cached colour or zone vector.
C5_ColorModeChangesOnce ==
    [][\A k \in DOMAIN bulbs :
          bulbs[k].color.mode # "Unknown" =>
              /\ bulbs'[k].color.mode = bulbs[k].color.mode
              /\ IsSome(Unwrap(bulbs[k].color.d).data)
                    => IsSome(Unwrap(bulbs'[k].color.d).data)]_vars

\* C6: handling StateVersion{vendor, product} stores (vendor, product) in
\* model and sets the colour mode to Multi (15 s, GetColorZones{0,255}) for a
\* multizone product and to Single (15 s, LightGet) for every other pair.
C6_StateVersionSetsColorMode ==
    [][(HandleStep /\ PendingDecodes /\ PendingMsg.typ = "StateVersion")
          => LET m == PendingMsg
                 b == bulbs'[PendingTarget]
                 info == get_product_info(m.vendor, m.product)
             IN /\ b.model.data = Some(<<m.vendor, m.product>>)
                /\ b.color =
                     IF IsSome(info) /\ Unwrap(info).multizone
                     THEN ColorMulti(RefreshableDataEmpty(15,
                            [typ |-> "GetColorZones", start_index |-> 0, end_index |-> 255],
                            now))
                     ELSE ColorSingle(RefreshableDataEmpty(15, [typ |-> "LightGet"], now))]_vars

\* C7: in Multi mode a StateZone{count, index, color} with index < count
\* leaves a zone vector of length count in which position index holds color
\* and every other position keeps what it held (absent if never set).
C7_StateZoneSetsOnePosition ==
    [][(/\ HandleStep /\ PendingDecodes /\ PendingMsg.typ = "StateZone"
        /\ bulbs[PendingTarget].color.mode = "Multi"
        /\ PendingMsg.index < PendingMsg.count)
          => LET m == PendingMsg
                 old == Zones(bulbs[PendingTarget])
                 new == Zones(bulbs'[PendingTarget])
             IN /\ IsSome(new)
                /\ Len(Unwrap(new)) = m.count
                /\ \A i \in 1..m.count :
                      Unwrap(new)[i] =
                        IF i = m.index + 1 THEN Some(m.color)
                        ELSE IF IsSome(old) /\ i <= Len(Unwrap(old)) THEN Unwrap(old)[i]
                        ELSE None]_vars

\* A zone message whose positions do not all lie below its count.
ZoneOutOfRange(m) ==
    \/ m.typ = "StateZone" /\ m.index >= m.count
    \/ m.typ = "StateMultiZone" /\ m.index + 7 >= m.count

\* C8: in Multi mode an out-of-range zone message changes no zone entry, does
\* not stop the receive task and leaves the registry lock usable.
C8_OutOfRangeZoneIsIgnored ==
    [][(/\ HandleStep /\ PendingDecodes
        /\ bulbs[PendingTarget].color.mode = "Multi"
        /\ ZoneOutOfRange(PendingMsg))
          => /\ Zones(bulbs'[PendingTarget]) = Zones(bulbs[PendingTarget])
             /\ worker_pc' = "recv"
             /\ mutex' = [holder |-> NoneHeld, poisoned |-> FALSE]]_vars

\* C9: in Multi mode a StateMultiZone{count, index, color0..color7} with
\* index + 8 <= count is accepted: positions index..index+7 hold the eight
\* colours in order and every other position keeps what it held.
C9_MultiZoneInRangeIsAccepted ==
    [][(/\ HandleStep /\ PendingDecodes /\ PendingMsg.typ = "StateMultiZone"
        /\ bulbs[PendingTarget].color.mode = "Multi"
        /\ PendingMsg.index + 8 <= PendingMsg.count)
          => LET m == PendingMsg
                 colors == <<m.color0, m.color1, m.color2, m.color3,
                             m.color4, m.color5, m.color6, m.color7>>
                 old == Zones(bulbs[PendingTarget])
                 new == Zones(bulbs'[PendingTarget])
             IN /\ worker_pc' = "recv"
                /\ IsSome(new)
                /\ \A i \in 1..Len(Unwrap(new)) :
                      Unwrap(new)[i] =
                        IF i - 1 \in m.index..(m.index + 7) THEN Some(colors[i - m.index])
                        ELSE IF IsSome(old) THEN Unwrap(old)[i]
                        ELSE None
                /\ Len(Unwrap(new)) >= m.index + 8]_vars

\* The owner is reading the registry: inside refresh() or inspecting bulbs.
OwnerObserves == owner_pc \in {"refresh", "inspect"}

\* C10: between the receive task's lookup-or-insert for a packet and the end
\* of handle_message for it, the receive task holds the lock and no other
\* thread observes the registry; a thread that observes it holds the lock,
\* unpoisoned.
C10_EntryAtomicWithDispatch ==
    /\ worker_pc = "handle" => (mutex.holder = "worker" /\ ~OwnerObserves)
    /\ OwnerObserves => (mutex.holder = "owner" /\ ~mutex.poisoned)

\* C10's case: a bulb has been inserted, its message is not applied yet, and
\* the owner is about to lock the registry.
C10_Witness ==
    /\ worker_pc = "handle"
    /\ last.ev = "entry_new"
    /\ owner_pc = "idle"
\* C11: no thread performs send_to or recv_from while it holds the registry
\* mutex: the owner holds no lock in a step that hands datagrams to send_to,
\* the receive task holds none in a step in which recv_from returns.
C11_NoSocketIOUnderLock ==
    [][/\ (sent' # sent /\ sent' # {}) => mutex.holder # "owner"
       /\ nrecv' # nrecv => mutex.holder # "worker"]_vars

\* C12: the receive task holds no lock while it is in recv_from.
C12_RecvFromHoldsNoLock ==
    worker_pc = "recv" => mutex.holder # "worker"

\* C12's case: the receive task has handled a packet and is back in
\* recv_from while the owner holds the lock.
C12_Witness ==
    /\ worker_pc = "recv"
    /\ last.ev = "handled"
    /\ mutex.holder = "owner"

\* The datagrams a refresh() sends when it queries every bulb of the registry.
AllQueries == UNION {SeqRange(query_for_missing_info(bulbs[k], now)) : k \in DOMAIN bulbs}

\* C16: every call to refresh() that returns has run query_for_missing_info
\* on every bulb of the registry.
C16_RefreshQueriesEveryBulb ==
    [][(/\ owner_pc \in {"idle", "refresh"}
        /\ owner_pc' = "returned"
        /\ refresh_result' \in {"ok", "skipped"})
          => sent' = AllQueries]_vars

\* C17: a send that fails in refresh() or discover() reaches the caller as
\* an error result, without a panic and without poisoning the registry lock.
C17_SendErrorReachesCaller ==
    [][(/\ owner_pc \in {"new", "idle", "refresh"}
        /\ owner_pc' \in {"returned", "failed"}
        /\ refresh_result' \in {"err", "panic", "discover_err"})
          => /\ refresh_result' \in {"err", "discover_err"}
             /\ ~mutex'.poisoned]_vars
\* C13: needs_refresh() is true iff no value is stored or the time elapsed
\* since last_updated is strictly greater than max_age: true from construction
\* until the first update, false after an update for as long as the elapsed
\* time is at most max_age, true once it is beyond max_age.
C13_NeedsRefreshIffAbsentOrExpired ==
    LET d == Unwrap(probe)
        elapsed == now - d.last_updated
    IN /\ needs_refresh(d, now) <=> (d.data = None \/ elapsed > d.max_age)
       /\ last.ev = "empty" => needs_refresh(d, now)
       /\ (last.ev = "update" /\ elapsed <= d.max_age) => ~needs_refresh(d, now)
       /\ (last.ev = "update" /\ elapsed > d.max_age) => needs_refresh(d, now)

\* C13's case: a record of max_age 1 s, updated, two seconds later.
C13_Witness ==
    /\ last.ev = "update"
    /\ Unwrap(probe).max_age = 1
    /\ now - Unwrap(probe).last_updated = 2
    /\ needs_refresh(Unwrap(probe), now)

\* C14: every update(v) is accepted: the record then holds v and the time of
\* the update, and max_age and the refresh request are what they were.
C14_UpdateIsUnconditional ==
    [][(now' = now /\ last'.ev = "update")
          => LET d == Unwrap(probe)
                 e == Unwrap(probe')
             IN /\ e.data = Some(last'.res)
                /\ e.last_updated = now
                /\ e.max_age = d.max_age
                /\ e.refresh_msg = d.refresh_msg]_vars

\* C14's case: the record has just been updated with v2, more than a second
\* after it was built.
C14_Witness ==
    /\ last = Event("update", "v2")
    /\ Unwrap(probe).data = Some("v2")
    /\ Unwrap(probe).last_updated = now
    /\ now > 1
\* The refreshable attributes of a bulb: the seven of Bulb::new and, once
\* the colour mode is Single or Multi, the colour record.
RefreshableAttributes(bulb) ==
    {bulb.model, bulb.location, bulb.group, bulb.name, bulb.host_firmware,
     bulb.wifi_firmware, bulb.power_level}
    \cup (IF bulb.color.mode \in {"Single", "Multi"} THEN {Unwrap(bulb.color.d)} ELSE {})

\* The datagram dg is the refresh request of attribute a of the bulb.
IsRequestFor(dg, bulb, a) ==
    /\ dg.to = bulb.addr
    /\ from_raw(dg.raw) = Ok(a.refresh_msg)
    /\ dg.raw.frame_addr.target = bulb.target
    /\ dg.raw.frame.tagged = FALSE
    /\ dg.raw.frame_addr.res_required = TRUE
    /\ dg.raw.frame_addr.sequence = 0
    /\ dg.raw.frame.source = SOURCE

\* C15: a refresh() that completes has sent, for every bulb, one datagram for
\* each attribute that has no value or whose value is older than its max_age,
\* and nothing else; query_for_missing_info emits no datagram twice.
C15_QueryEmitsOnePerStaleAttribute ==
    [][(owner_pc = "refresh" /\ refresh_result' = "ok")
          => /\ \A k \in DOMAIN bulbs : \A a \in RefreshableAttributes(bulbs[k]) :
                   (\E dg \in sent' : IsRequestFor(dg, bulbs[k], a))
                     <=> (a.data = None \/ now - a.last_updated > a.max_age)
             /\ \A dg \in sent' :
                   \E k \in DOMAIN bulbs : \E a \in RefreshableAttributes(bulbs[k]) :
                       IsRequestFor(dg, bulbs[k], a)
             /\ \A k \in DOMAIN bulbs :
                   LET q == query_for_missing_info(bulbs[k], now)
                   IN Cardinality(SeqRange(q)) = Len(q)]_vars

\* C15's case: a refresh() has completed for a bulb that moved to a second
\* address, whose name is cached and fresh and whose cached colour is stale.
C15_Witness ==
    /\ refresh_result = "ok"
    /\ \E k \in DOMAIN bulbs :
          /\ bulbs[k].addr = Addr2
          /\ bulbs[k].color.mode = "Single"
          /\ IsSome(Unwrap(bulbs[k].color.d).data)
          /\ now - Unwrap(bulbs[k].color.d).last_updated > COLOR_TTL
          /\ \E dg \in sent : dg.to = Addr2 /\ dg.raw.protocol_header.typ = get_num("LightGet")
          /\ ~\E dg \in sent : dg.raw.protocol_header.typ = get_num("GetVersion")
\* The TTL in seconds and the refresh request of an attribute.
TtlAndRequest(a) == <<a.max_age, a.refresh_msg.typ>>

\* C18: a bulb created by Bulb::new has no stored value, colour mode Unknown
\* and the (TTL, refresh request) pairs of the seven attributes; every colour
\* record has TTL 15 s.
C18_NewBulbAttributes ==
    [][/\ (worker_pc = "lock" /\ last'.ev = "entry_new")
           => LET b == bulbs'[PendingTarget]
              IN /\ \A a \in {b.model, b.location, b.group, b.name, b.host_firmware,
                               b.wifi_firmware, b.power_level} : a.data = None
                 /\ b.color.mode = "Unknown"
                 /\ b.color.d = None
                 /\ TtlAndRequest(b.model) = <<3600, "GetVersion">>
                 /\ TtlAndRequest(b.location) = <<3600, "GetLocation">>
                 /\ TtlAndRequest(b.group) = <<3600, "GetGroup">>
                 /\ TtlAndRequest(b.name) = <<3600, "GetLabel">>
                 /\ TtlAndRequest(b.host_firmware) = <<3600, "GetHostFirmware">>
                 /\ TtlAndRequest(b.wifi_firmware) = <<3600, "GetWifiFirmware">>
                 /\ TtlAndRequest(b.power_level) = <<15, "GetPower">>
       /\ \A k \in DOMAIN bulbs' :
             bulbs'[k].color.mode # "Unknown" => Unwrap(bulbs'[k].color.d).max_age = 15]_vars

\* C18's case: two bulbs were created and one has got a colour record since.
C18_Witness ==
    /\ DOMAIN bulbs = {T1, T2}
    /\ bulbs[T1].color.mode = "Multi"
    /\ bulbs[T2].color.mode = "Unknown"
\* The interfaces discover() is to reach: IPv4, not loopback, with a
\* broadcast address.
BroadcastIfaces == {i \in 1..Len(ifaces) :
                      ifaces[i].v4 /\ ~ifaces[i].loopback /\ ifaces[i].broadcast # None}

\* The datagram dg is a GetService broadcast of the manager.
IsGetServiceBroadcast(dg) ==
    /\ dg.to.port = 56700
    /\ dg.raw.protocol_header.typ = 2
    /\ dg.raw.frame.tagged = TRUE
    /\ dg.raw.frame_addr.target = 0
    /\ dg.raw.frame.size = 36
    /\ Len(RawMessagePack(dg.raw)) = 36
    /\ dg.raw.frame.source = SOURCE

\* C19: a successful discover(), that of Manager::new included, sends one
\* GetService datagram (tagged, target 0, size 36, the manager's source) to
\* port 56700 of the broadcast address of every non-loopback IPv4 interface
\* that has one, nothing else, and sets last_discovery to the current time.
C19_DiscoverBroadcastsGetService ==
    [][(owner_pc \in {"new", "idle"} /\ refresh_result' = "discovered")
          => /\ \A i \in BroadcastIfaces :
                   \E dg \in sent' : dg.to.ip = Unwrap(ifaces[i].broadcast)
             /\ \A dg \in sent' :
                   /\ IsGetServiceBroadcast(dg)
                   /\ \E i \in BroadcastIfaces : dg.to.ip = Unwrap(ifaces[i].broadcast)
             /\ Len(DiscoverDatagrams(SOURCE, ifaces)) = Cardinality(BroadcastIfaces)
             /\ last_discovery' = now]_vars

\* C19's case: a discover() after construction, at a later time, on a host
\* with a loopback interface that has a broadcast address and two others
\* that were sent to.
C19_Witness ==
    /\ refresh_result = "discovered"
    /\ last_discovery = now
    /\ now > 0
    /\ Cardinality(sent) = 2
    /\ \E i \in 1..Len(ifaces) : ifaces[i].loopback /\ ifaces[i].broadcast # None
\* The bytes lib.rs's test_build_a_packet expects.
TestPacketBytes ==
    <<49, 0, 0, 52, 0, 0, 0, 0, 0, 0, 0, 0, 0, 0, 0, 0, 0, 0, 0, 0, 0, 0, 0, 0, 0, 0, 0, 0,
      0, 0, 0, 0, 102, 0, 0, 0, 0, 85, 85, 255, 255, 255, 255, 172, 13, 0, 4, 0, 0>>

\* build has returned a raw message: no write_val of it has panicked.
BuildReturned ==
    probe # None /\ ~BuildPanics(Unwrap(probe).msg, BuildLayout(Unwrap(probe).msg.typ))

\* C20: the raw message build returns has frame.size = packed_size() = 36 +
\* the length of its payload, and pack() returns exactly frame.size bytes,
\* whose size field says so.
C20_BuildSizeIsPackedLength ==
    BuildReturned =>
        LET b == Unwrap(probe)
        IN /\ b.raw.frame.size = RawMessagePackedSize(b.raw)
           /\ b.raw.frame.size = 36 + Len(b.raw.payload)
           /\ Len(b.bytes) = b.raw.frame.size
           /\ U16At(b.bytes, 0) = Len(b.bytes)
           /\ (b.msg = TestPacketMessage /\ b.options = BuildOptionsDefault)
                 => b.bytes = TestPacketBytes

\* C20's case: a message with the longest payload was built for one device.
C20_Witness ==
    /\ probe # None
    /\ Unwrap(probe).msg.typ = "StateMultiZone"
    /\ Unwrap(probe).options.target = Some(T1)
    /\ Len(Unwrap(probe).bytes) = 102

\* RawMessage::validate: the three headers' validate, in order.
RawMessageValidate(raw) ==
    /\ FrameValidate(raw.frame)
    /\ FrameAddressValidate(raw.frame_addr)
    /\ ProtocolHeaderValidate(raw.protocol_header)

\* C21: in every message build produces, frame.tagged is true exactly when
\* frame_addr.target is 0, whatever the options' target.
C21_TaggedIffTargetZero ==
    BuildReturned =>
        LET b == Unwrap(probe)
        IN b.raw.frame.tagged <=> (b.raw.frame_addr.target = 0)

\* C22: build yields origin 0, addressable, protocol 1024, the options'
\* source, the options' target or 0, every reserved field of the address and
\* of the protocol header zero, the options' ack_required, res_required and
\* sequence, and the message's type code; the result passes validate, and
\* the same fields are in the packed bytes.
C22_BuildHeaderFields ==
    BuildReturned =>
        LET b == Unwrap(probe)
            o == b.options
            raw == b.raw
        IN /\ raw.frame.origin = 0
           /\ raw.frame.addressable = TRUE
           /\ raw.frame.protocol = 1024
           /\ raw.frame.source = o.source
           /\ raw.frame_addr.target = (IF o.target = None THEN 0 ELSE Unwrap(o.target))
           /\ raw.frame_addr.reserved = <<0, 0, 0, 0, 0, 0>>
           /\ raw.frame_addr.reserved2 = 0
           /\ raw.frame_addr.ack_required = o.ack_required
           /\ raw.frame_addr.res_required = o.res_required
           /\ raw.frame_addr.sequence = o.sequence
           /\ raw.protocol_header.reserved = 0
           /\ raw.protocol_header.reserved2 = 0
           /\ raw.protocol_header.typ = get_num(b.msg.typ)
           /\ RawMessageValidate(raw)
           /\ U32At(b.bytes, 4) = o.source
           /\ U8At(b.bytes, 23) = o.sequence
           /\ U16At(b.bytes, 32) = get_num(b.msg.typ)

\* C22's case: a message was built for one device with both flags set, a
\* sequence number and a source.
C22_Witness ==
    /\ probe # None
    /\ Unwrap(probe).options =
          [target |-> Some(T1), ack_required |-> TRUE, res_required |-> TRUE,
           sequence |-> 255, source |-> SOURCE]
    /\ Unwrap(probe).msg.typ = "SetColorZones"
    /\ Unwrap(probe).raw.protocol_header.typ = 501

\* C23: build(opts, m) returns, and decoding its packed bytes succeeds and
\* gives m. (The labels of the messages built hold no NUL and their reserved
\* fields are zero, so the result is compared with m itself.)
C23_BuildPackUnpackFromRaw ==
    probe # None =>
        /\ BuildReturned
        /\ DecodeBytes(Unwrap(probe).bytes) = Ok(Unwrap(probe).msg)

\* The type codes the protocol documents.
DocumentedTypes ==
    {2, 3} \cup 12..25 \cup 32..35 \cup {45} \cup 48..53 \cup {58, 59} \cup 101..103
    \cup {107} \cup 116..122 \cup 501..503 \cup {506}

\* C24: from_raw fails with UnknownMessageType exactly for the type codes
\* that are not documented, and for a documented code with a well-formed
\* payload it returns the variant whose get_num() is that code.
C24_FromRawExhaustive ==
    probe # None =>
        LET d == Unwrap(probe).input
            r == Unwrap(probe).result
        IN /\ (r = Err("UnknownMessageType")) <=> (d.typ \notin DocumentedTypes)
           /\ (d.typ \in DocumentedTypes /\ d.kind = "wellformed")
                 => (r.tag = "Ok" /\ get_num(Unwrap(r.val).typ) = d.typ)

\* The bytes build writes for field i of the layout B of the message m.
BuiltField(m, B, i) == WriteVal(B[i][2], m[B[i][1]])

\* The offset in the payload at which build writes field i of m.
RECURSIVE BuiltOffset(_, _, _)
BuiltOffset(m, B, i) ==
    IF i = 1 THEN 0 ELSE BuiltOffset(m, B, i - 1) + Len(BuiltField(m, B, i - 1))

\* C25: for a variant from_raw decodes, build writes the fields from_raw
\* reads, in the same order and with the same widths, so that each field is
\* at the same byte position for both; StateService is one service byte and
\* then the port in four bytes, little-endian.
C25_EncoderAndDecoderAgree ==
    (BuildReturned /\ FromRawVariant(get_num(Unwrap(probe).msg.typ)) # "none") =>
        LET m == Unwrap(probe).msg
            raw == Unwrap(probe).raw
            B == BuildLayout(m.typ)
            D == FromRawLayout(get_num(m.typ))
        IN /\ Len(B) = Len(D)
           /\ \A i \in 1..Len(B) :
                 /\ B[i][1] = D[i][1]
                 /\ Len(BuiltField(m, B, i)) = Width(D[i][2])
                 /\ BuiltOffset(m, B, i) = FieldOffset(D, i)
           /\ m.typ = "StateService" =>
                 raw.payload = LE8(ServiceUDP) \o LE32(m.port)

\* C26: a payload whose enum field holds a value outside the enum fails
\* with ProtocolError, for every variant that has such a field.
C26_EnumOutOfRangeIsProtocolError ==
    (probe # None /\ Unwrap(probe).input.kind = "enum") =>
        Unwrap(probe).result = Err("ProtocolError")

\* C27: a datagram of a type from_raw decodes whose payload is shorter than
\* the type's layout fails with ProtocolError, and so yields no message.
C27_TruncatedIsProtocolError ==
    (/\ probe # None
     /\ Unwrap(probe).input.kind = "truncated"
     /\ FromRawVariant(Unwrap(probe).input.typ) # "none") =>
        Unwrap(probe).result = Err("ProtocolError")

\* C28: a frame with origin < 4, addressable and protocol 1024 packs into 8
\* bytes, and unpacking them gives the frame back.
C28_FrameRoundTrip ==
    (probe # None /\ Unwrap(probe).kind = "Frame") =>
        LET b == Unwrap(probe)
        IN /\ FrameValidate(b.value)
           /\ Len(b.bytes) = 8
           /\ b.back = Ok(b.value)
           /\ (b.value = TestFrame) => (b.bytes[1] = 34 /\ b.bytes[2] = 17)

\* C28's case: a frame with both origin bits and the tagged bit set, the
\* largest size and a source was packed and unpacked.
C28_Witness ==
    /\ probe # None
    /\ Unwrap(probe).kind = "Frame"
    /\ Unwrap(probe).value.origin = 3
    /\ Unwrap(probe).value.tagged
    /\ Unwrap(probe).value.size = 65535
    /\ Unwrap(probe).value.source = SOURCE
    /\ Unwrap(probe).back.tag = "Ok"

\* C29: every FrameAddress packs into 16 bytes and every ProtocolHeader into
\* 12, and unpacking the bytes gives the value back.
C29_AddressAndHeaderRoundTrip ==
    (probe # None /\ Unwrap(probe).kind \in {"FrameAddress", "ProtocolHeader"}) =>
        LET b == Unwrap(probe)
        IN /\ Len(b.bytes) = (IF b.kind = "FrameAddress" THEN 16 ELSE 12)
           /\ b.back = Ok(b.value)

\* C30: the second 16-bit little-endian word of a packed frame is
\* origin * 2^14 + tagged * 2^13 + addressable * 2^12 + protocol mod 2^12,
\* the size and the source are plain little-endian, and unpack takes the
\* same fields out of the same bits: 00 54 is origin 1, not tagged,
\* addressable, protocol 1024, and 00 14 is origin 0.
C30_FrameBitLayout ==
    probe # None =>
        LET b == Unwrap(probe)
            f == b.value
            bit(x) == IF x THEN 1 ELSE 0
        IN /\ b.kind = "Frame" =>
                /\ U16At(b.bytes, 2) = f.origin * 16384 + bit(f.tagged) * 8192
                                       + bit(f.addressable) * 4096 + (f.protocol % 4096)
                /\ SubSeq(b.bytes, 1, 2) = <<f.size % 256, f.size \div 256>>
                /\ SubSeq(b.bytes, 5, 8) =
                      <<f.source % 256, (f.source \div 256) % 256,
                        (f.source \div 65536) % 256, f.source \div 16777216>>
           /\ (b.kind = "FrameBytes" /\ SubSeq(b.bytes, 3, 4) = <<0, 84>>) =>
                /\ b.back.tag = "Ok"
                /\ Unwrap(b.back.val).origin = 1
                /\ Unwrap(b.back.val).tagged = FALSE
                /\ Unwrap(b.back.val).addressable = TRUE
                /\ Unwrap(b.back.val).protocol = 1024
           /\ (b.kind = "FrameBytes" /\ SubSeq(b.bytes, 3, 4) = <<0, 20>>) =>
                /\ b.back.tag = "Ok"
                /\ Unwrap(b.back.val).origin = 0
                /\ Unwrap(b.back.val).tagged = FALSE
                /\ Unwrap(b.back.val).addressable = TRUE
                /\ Unwrap(b.back.val).protocol = 1024
           /\ (b.kind = "FrameBytes" /\ b.bytes = TestDecodeFrame) =>
                /\ Unwrap(b.back.val).size = 40
                /\ Unwrap(b.back.val).source = 1380667970
           /\ (b.kind = "FrameBytes" /\ b.bytes = TestDecodeFrame1) =>
                /\ Unwrap(b.back.val).size = 36
                /\ Unwrap(b.back.val).source = 87507402

\* C30's case: the bytes of test_decode_frame were unpacked to a frame of
\* origin 1.
C30_Witness ==
    /\ probe # None
    /\ Unwrap(probe).kind = "FrameBytes"
    /\ Unwrap(probe).bytes = TestDecodeFrame
    /\ Unwrap(probe).back.tag = "Ok"
    /\ Unwrap(Unwrap(probe).back.val).origin = 1

\* C31: on at least 8 bytes Frame::unpack returns a ProtocolError exactly
\* when the low 12 bits of the second word are not 1024, and otherwise
\* returns a frame, whatever the origin, tagged and addressable bits, the
\* size and the source.
C31_UnpackRejectsOnlyProtocol ==
    (probe # None /\ Unwrap(probe).kind = "FrameBytes" /\ Len(Unwrap(probe).bytes) >= 8) =>
        LET b == Unwrap(probe)
            protocol == U16At(b.bytes, 2) % 4096
        IN /\ (b.back = Err("ProtocolError")) <=> (protocol # 1024)
           /\ (protocol = 1024) => b.back.tag = "Ok"

\* C31's case: bytes of protocol 1024 with origin 3, tagged set and
\* addressable clear were unpacked to a frame.
C31_Witness ==
    /\ probe # None
    /\ Unwrap(probe).kind = "FrameBytes"
    /\ Len(Unwrap(probe).bytes) = 36
    /\ U16At(Unwrap(probe).bytes, 2) = 3 * 16384 + 8192 + 1024
    /\ Unwrap(probe).back.tag = "Ok"
    /\ Unwrap(Unwrap(probe).back.val).addressable = FALSE

\* The datagrams of the set_color calls so far, sent or not, by call.
SetColorDatagrams == Unwrap(probe).threads \cup SeqRange(Unwrap(probe).wire)

\* The four bytes of min(duration in milliseconds, 2^32 - 1).
ClampedDurationBytes(duration) ==
    IF duration.hi > 0 THEN <<255, 255, 255, 255>> ELSE LE32(duration.lo)

\* C32: the datagram of a set_color(color, duration) that returned Ok is a
\* LightSetColor with reserved 0, the color, and the duration in whole
\* milliseconds clamped to 2^32 - 1, addressed to the bulb's target, not
\* tagged, with res_required, and goes to the bulb's addr.
C32_SetColorDatagram ==
    \A th \in SetColorDatagrams :
        LET call == Unwrap(probe).calls[th.call]
            raw == th.dg.raw
        IN /\ raw.protocol_header.typ = 102
           /\ raw.payload = LE8(0) \o WriteHSBK(call.color)
                            \o ClampedDurationBytes(call.duration)
           /\ raw.frame_addr.target = call.target
           /\ raw.frame.tagged = FALSE
           /\ raw.frame_addr.res_required = TRUE
           /\ th.dg.to = call.addr

\* C40: the datagrams reach the socket in the order of the calls, and each
\* goes to the address the bulb had when its call was made.
C40_SetColorOrder ==
    LET wire == Unwrap(probe).wire
    IN /\ \A i \in 1..Len(wire) : \A j \in 1..Len(wire) :
             i < j => wire[i].call < wire[j].call
       /\ \A i \in 1..Len(wire) : wire[i].dg.to = Unwrap(probe).calls[wire[i].call].addr

\* The step in which handle_message runs on a message that decodes.
HandlesDecoded == HandleStep /\ PendingDecodes

\* C33: handling LightState sets the cached colour and the power level of a
\* bulb in Single mode, leaves both alone in Unknown and Multi mode, sets
\* the name in every mode, and changes nothing else.
C33_LightStateByColorMode ==
    [][(HandlesDecoded /\ PendingMsg.typ = "LightState") =>
          LET b == bulbs[PendingTarget]
              m == PendingMsg
              named == [b EXCEPT !.name = RefreshableDataUpdate(@, m.label, now)]
          IN /\ mutex'.poisoned = mutex.poisoned
             /\ b.color.mode = "Single" =>
                   /\ bulbs'[PendingTarget] =
                         [named EXCEPT
                            !.color = ColorSingle(
                                RefreshableDataUpdate(Unwrap(b.color.d), m.color, now)),
                            !.power_level = RefreshableDataUpdate(@, m.power, now)]
                   /\ Unwrap(bulbs'[PendingTarget].color.d).data = Some(m.color)
                   /\ bulbs'[PendingTarget].power_level.data = Some(m.power)
             /\ b.color.mode \in {"Unknown", "Multi"} => bulbs'[PendingTarget] = named
             /\ bulbs'[PendingTarget].name.data = Some(m.label)]_vars

\* C33's case: a LightState was handled for a bulb in Single mode that had
\* no colour and no power level before, and for nothing else since.
C33_Witness ==
    /\ last = Event("handled", "Ok")
    /\ T1 \in DOMAIN bulbs
    /\ bulbs[T1].color.mode = "Single"
    /\ Unwrap(bulbs[T1].color.d).data = Some(Red)
    /\ bulbs[T1].power_level.data = Some("Standby")
    /\ bulbs[T1].name.data = Some(LabelA)

\* The attribute each of the six single-attribute messages updates, and the
\* field of the message it takes.
OwnAttribute(typ) ==
    CASE typ = "StateLabel" -> <<"name", "label">>
      [] typ = "StateLocation" -> <<"location", "label">>
      [] typ = "StateGroup" -> <<"group", "label">>
      [] typ = "StatePower" -> <<"power_level", "level">>
      [] typ = "StateHostFirmware" -> <<"host_firmware", "version">>
      [] typ = "StateWifiFirmware" -> <<"wifi_firmware", "version">>

\* The variants handle_message has an arm for that changes the bulb.
HandledSet ==
    {"StateLabel", "StateLocation", "StateGroup", "StatePower", "StateHostFirmware",
     "StateWifiFirmware", "StateVersion", "LightState", "StateZone", "StateMultiZone"}

\* C34: StateLabel, StateLocation, StateGroup, StatePower, StateHostFirmware
\* and StateWifiFirmware each update their own attribute and nothing else,
\* and a decoded message of any variant outside the handled set, StateService
\* among them, leaves the bulb as it is.
C34_OwnAttributeOnly ==
    [][HandlesDecoded =>
          LET b == bulbs[PendingTarget]
              m == PendingMsg
          IN /\ m.typ \in {"StateLabel", "StateLocation", "StateGroup", "StatePower",
                           "StateHostFirmware", "StateWifiFirmware"} =>
                   LET a == OwnAttribute(m.typ)[1]
                       v == m[OwnAttribute(m.typ)[2]]
                   IN /\ bulbs'[PendingTarget] =
                            [b EXCEPT ![a] = [b[a] EXCEPT !.data = Some(v),
                                                          !.last_updated = now]]
                      /\ bulbs'[PendingTarget].color = b.color
             /\ m.typ \notin HandledSet => bulbs'[PendingTarget] = b]_vars

\* C34's case: a StateGroup was handled, and the bulb has a group and
\* nothing else.
C34_Witness ==
    /\ last = Event("handled", "Ok")
    /\ T1 \in DOMAIN bulbs
    /\ IsSome(bulbs[T1].group.data)
    /\ ~IsSome(bulbs[T1].location.data)
    /\ ~IsSome(bulbs[T1].name.data)
    /\ bulbs[T1].color.mode = "Unknown"

\* The receive task leaves receiver_bulbs.lock() with an unpacked packet.
LockStep == worker_pc = "lock" /\ worker_pc' # "lock"

\* C35: when the receive task takes up an unpacked packet from address A
\* whose target is already in the registry, the bulb's last_seen becomes the
\* current time and its addr becomes A before handle_message runs; no bulb's
\* last_seen ever decreases; and the requests of a refresh go to the addr
\* the bulb has then.
C35_PacketRefreshesLastSeenAndAddr ==
    [][/\ (LockStep /\ PendingTarget \in DOMAIN bulbs) =>
             /\ worker_pc' = "handle"
             /\ bulbs'[PendingTarget].last_seen = now
             /\ bulbs'[PendingTarget].addr = Unwrap(pending).addr
       /\ \A k \in DOMAIN bulbs :
             k \in DOMAIN bulbs' /\ bulbs'[k].last_seen >= bulbs[k].last_seen
       /\ (owner_pc = "refresh" /\ refresh_result' = "ok") =>
             \A dg \in sent' : dg.to = bulbs[dg.raw.frame_addr.target].addr]_vars

\* A discover() ends with the error of a send_to.
DiscoverFailsStep == refresh_result # "discover_err" /\ refresh_result' = "discover_err"

\* C36: a discover() in which a send fails has sent to the interfaces before
\* the failing one and to none after it, leaves last_discovery as it was and
\* returns the error (from Manager::new, in place of a manager); the receive
\* task is not stopped by it and can still take a datagram.
C36_DiscoverFailsFast ==
    /\ [][DiscoverFailsStep =>
             /\ \E j \in 1..Len(DiscoverDatagrams(SOURCE, ifaces)) :
                   sent' = SeqRange(SubSeq(DiscoverDatagrams(SOURCE, ifaces), 1, j - 1))
             /\ last_discovery' = last_discovery
             /\ owner_pc' = (IF owner_pc = "new" THEN "failed" ELSE "returned")
             /\ <<bulbs, mutex, worker_pc, pending>>' = <<bulbs, mutex, worker_pc, pending>>]_vars
    /\ []((owner_pc = "failed" /\ worker_pc = "recv" /\ nrecv < MaxRecv)
             => ENABLED WorkerRecvDiscover)

\* C36's case: Manager::new failed in discover after a send to one
\* interface, with a later interface never reached, and the receive task
\* has registered a device all the same.
C36_Witness ==
    /\ owner_pc = "failed"
    /\ refresh_result = "discover_err"
    /\ Cardinality(sent) = 1
    /\ Len(DiscoverDatagrams(SOURCE, ifaces)) = 3
    /\ last_discovery = 0
    /\ T1 \in DOMAIN bulbs

\* C37: the registry's keys are the targets of the bulbs they hold, none is
\* zero, every bulb carries the manager's source; a bulb's target and source
\* stay what they were at insertion and no entry leaves the registry.
C37_RegistryKeysAndIdentity ==
    /\ [](\A k \in DOMAIN bulbs :
             /\ k # 0
             /\ bulbs[k].target = k
             /\ bulbs[k].source = SOURCE)
    /\ [][\A k \in DOMAIN bulbs :
             /\ k \in DOMAIN bulbs'
             /\ bulbs'[k].target = bulbs[k].target
             /\ bulbs'[k].source = bulbs[k].source]_vars

\* C37's case: two bulbs are registered and the first, inserted by a packet
\* from one address, has since been heard from another.
C37_Witness ==
    /\ DOMAIN bulbs = {T1, T2}
    /\ IsSome(bulbs[T1].name.data)
    /\ bulbs[T1].addr = Addr2
    /\ bulbs[T1].last_seen = MaxNow

\* The attributes whose value the step has changed, by name, the colour
\* record under "color".
Refreshed(before, after) ==
    {f \in {"model", "location", "group", "name", "host_firmware", "wifi_firmware",
            "power_level"} : IsSome(after[f].data) /\ after[f] # before[f]}

ColorRefreshed(before, after) ==
    /\ after.color.mode # "Unknown"
    /\ IsSome(Unwrap(after.color.d).data)
    /\ after.color # before.color

\* C38: a refresh() changes no bulb; one that completes requests exactly
\* the attributes whose needs_refresh() is true, however often they were
\* requested before; and an attribute that a handled State message has just
\* updated does not need a refresh, so that it is not requested again before
\* more than its max_age has passed.
C38_RequestedUntilAnswered ==
    [][/\ (owner_pc \in {"idle", "refresh"} /\ owner_pc' \in {"refresh", "returned"})
             => bulbs' = bulbs
       /\ (owner_pc = "refresh" /\ refresh_result' = "ok")
             => \A k \in DOMAIN bulbs : \A a \in RefreshableAttributes(bulbs[k]) :
                   needs_refresh(a, now) => \E dg \in sent' : IsRequestFor(dg, bulbs[k], a)
       /\ HandleStep
             => LET before == bulbs[PendingTarget]
                    after == bulbs'[PendingTarget]
                IN /\ \A f \in Refreshed(before, after) : ~needs_refresh(after[f], now)
                   /\ ColorRefreshed(before, after)
                         => ~needs_refresh(Unwrap(after.color.d), now)]_vars

\* Every attribute of the bulb has a value, its colour mode is known and its
\* colour record holds a value.
Complete(bulb) ==
    /\ \A f \in {"name", "group", "location", "model", "host_firmware", "wifi_firmware",
                 "power_level"} : IsSome(bulb[f].data)
    /\ bulb.color.mode # "Unknown"
    /\ IsSome(Unwrap(bulb.color.d).data)

\* C39: with an owner that goes on calling refresh(), a device that answers
\* every request and a receive task that takes every datagram (one that a
\* failing try_clone has ended takes none: such a behaviour is outside the
\* premise), a bulb of the registry eventually has a value for each of its
\* seven attributes, a known colour mode and a colour record with a value.
C39_EventuallyComplete ==
    \A k \in {T1} :
        (k \in DOMAIN bulbs) ~>
            ((k \in DOMAIN bulbs /\ Complete(bulbs[k])) \/ worker_pc = "dead")
====
